---- MODULE Spec2Model ----
(***************************************************************************)
(* py-php-session: a Redis session store shared with PHP's redis session   *)
(* handler.  The model covers the sanitizer (sanitize.py), the ambient     *)
(* session id (context.py), the key layout and the lock/load/save/release  *)
(* cycle and the lock-free operations of SessionManager (manager.py),      *)
(* against a Redis keyspace with SET [NX] [PX|EX], GET, DEL, EXISTS and    *)
(* the release script of constants.py.                                     *)
(*                                                                         *)
(* Time is counted in ticks.  A store command takes no time; time passes   *)
(* only while every live task is parked (idle, in asyncio.sleep, or inside *)
(* the caller's block of a lock scope).                                    *)
(***************************************************************************)
EXTENDS Integers, Sequences, FiniteSets, TLC

None == "<None>"

(***************************************************************************)
(* Strings.  Python str values are TLA+ strings; a character is a string   *)
(* of length one.                                                          *)
(***************************************************************************)
CharAt(s, i) == SubSeq(s, i, i)

Lower == {"a","b","c","d","e","f","g","h","i","j","k","l","m",
          "n","o","p","q","r","s","t","u","v","w","x","y","z"}
Upper == {"A","B","C","D","E","F","G","H","I","J","K","L","M",
          "N","O","P","Q","R","S","T","U","V","W","X","Y","Z"}
Digit == {"0","1","2","3","4","5","6","7","8","9"}

\* The character class [a-zA-Z0-9] of PHPSESSID_PATTERN.
Alnum == Lower \cup Upper \cup Digit

\* The repetition bounds {26,128} of PHPSESSID_PATTERN.
MinIdLen == 26
MaxIdLen == 128

\* The model's spelling of the character U+0000.
NUL == "¤"

\* Characters str.strip() removes (the ones the model's inputs use).
Whitespace == {" ", "\t", "\n", "\r"}

RECURSIVE LStrip(_)
LStrip(s) == IF Len(s) > 0 /\ CharAt(s, 1) \in Whitespace
             THEN LStrip(SubSeq(s, 2, Len(s))) ELSE s

RECURSIVE RStrip(_)
RStrip(s) == IF Len(s) > 0 /\ CharAt(s, Len(s)) \in Whitespace
             THEN RStrip(SubSeq(s, 1, Len(s) - 1)) ELSE s

\* Stripping at the left end only.
LStripOnly(s) == LStrip(s)

\* str.strip()
Strip(s) == RStrip(LStrip(s))

\* PHPSESSID_PATTERN.match(s): ^[a-zA-Z0-9]{26,128}$ .  Python's $ also
\* matches just before one trailing newline.
PatternMatch(s) ==
    LET body == IF Len(s) > 0 /\ CharAt(s, Len(s)) = "\n"
                THEN SubSeq(s, 1, Len(s) - 1) ELSE s
    IN  /\ Len(body) >= MinIdLen
        /\ Len(body) <= MaxIdLen
        /\ \A i \in 1..Len(body) : CharAt(body, i) \in Alnum

\* A sanitizer that trims and does not validate.
SanitizeUnchecked(c) ==
    IF c = None \/ c = "" THEN None ELSE Strip(c)

\* sanitize_phpsessid(session_id): the validated id, or None.
Sanitize(c) ==
    IF c = None \/ c = "" THEN None
    ELSE LET t == Strip(c)
         IN  IF ~PatternMatch(t) THEN None
             ELSE IF \E i \in 1..Len(t) : CharAt(t, i) = NUL THEN None
             ELSE t

(***************************************************************************)
(* Configuration (config.py) and key layout (manager.py).  Durations are   *)
(* in ticks of 25 ms: the retry interval of 0.05 s is two ticks.           *)
(***************************************************************************)
SESSION_PREFIX == "PHPREDIS_SESSION:"
LOCK_SUFFIX == "_LOCK"
DEFAULT_JSON_FIELDS == {"scart_items", "ga_data", "session_view_log", "MPIReceive"}
LOCK_RETRY_INTERVAL == 2

\* The configured lock_timeout and session_expire, in ticks.
LockTimeout == 3
SessionExpire == 5

\* SessionConfig(session_expire, lock_timeout) with the other defaults.
Config ==
    [ session_expire |-> SessionExpire,
      lock_timeout   |-> LockTimeout,
      session_prefix |-> SESSION_PREFIX,
      lock_suffix    |-> LOCK_SUFFIX,
      json_fields    |-> DEFAULT_JSON_FIELDS,
      json_prefix    |-> "trace_list_" ]

\* SessionConfig.__post_init__: the config is accepted.
ConfigValid(cfg) ==
    /\ cfg.session_expire > 0
    /\ cfg.lock_timeout > 0
    /\ cfg.session_prefix # ""

\* SessionManager._session_key / _lock_key
SessionKey(cfg, id) == cfg.session_prefix \o id

\* A lock key with the suffix put before the id.
LockKeySuffixFirst(cfg, id) == cfg.session_prefix \o cfg.lock_suffix \o id

\* One lock key for all sessions.
LockKeyShared(cfg, id) == cfg.session_prefix \o cfg.lock_suffix

\* A lock key without the suffix.
LockKeyNoSuffix(cfg, id) == SessionKey(cfg, id)

\* SessionManager._lock_key
LockKey(cfg, id) == SessionKey(cfg, id) \o cfg.lock_suffix

(***************************************************************************)
(* Session values.  A Python value is a tagged record; a dict is the       *)
(* sequence of its <<key, value>> pairs in insertion order.                *)
(***************************************************************************)
PyStr(s)  == [t |-> "str",  v |-> s]
PyInt(n)  == [t |-> "int",  v |-> n]
PyBool(b) == [t |-> "bool", v |-> b]
\* A float, given in tenths: PyFloat(15) is 1.5.
PyFloat(n) == [t |-> "float", v |-> n]
PyList(l) == [t |-> "list", v |-> l]
PyDict(d) == [t |-> "dict", v |-> d]
PyNone    == [t |-> "none", v |-> None]

EmptyDict == << >>

DictHas(d, k) == \E i \in 1..Len(d) : d[i][1] = k
DictIndex(d, k) == CHOOSE i \in 1..Len(d) : d[i][1] = k
\* dict.get(k): the value, or None.
DictGet(d, k) == IF DictHas(d, k) THEN d[DictIndex(d, k)][2] ELSE PyNone
\* d[k] = v: an existing key keeps its position, a new key is appended.
DictSet(d, k, v) ==
    IF DictHas(d, k) THEN [d EXCEPT ![DictIndex(d, k)] = <<k, v>>]
    ELSE Append(d, <<k, v>>)
\* d1 == d2 in Python: the same keys with equal values, in any order.
DictEq(d1, d2) ==
    /\ Len(d1) = Len(d2)
    /\ \A i \in 1..Len(d1) : DictHas(d2, d1[i][1]) /\ DictGet(d2, d1[i][1]) = d1[i][2]

(***************************************************************************)
(* phpserialize.  A blob is the sequence of the fields of the PHP wire     *)
(* text: s:3:"foo"; is <<"s","3","foo">>, i:5; is <<"i","5">>, b:1; is     *)
(* <<"b","1">>, d:1.5; is <<"d","1.5">>, N; is <<"N">>, a:1:{...} is        *)
(* <<"a","1","{", ..., "}">>.                                              *)
(***************************************************************************)
\* The integers the model's records hold.
IntValues == 0..40

\* The floats the model's records hold, in tenths, and their decimal text.
FloatValues == 0..40
FormatFloat(n) == ToString(n \div 10) \o "." \o ToString(n % 10)

RECURSIVE Dumps(_)
RECURSIVE DumpsPairs(_)
RECURSIVE DumpsItems(_, _)
\* phpserialize.dumps of one value.
Dumps(x) ==
    CASE x.t = "str"  -> <<"s", ToString(Len(x.v)), x.v>>
      [] x.t = "int"  -> <<"i", ToString(x.v)>>
      [] x.t = "bool" -> <<"b", IF x.v THEN "1" ELSE "0">>
      [] x.t = "float" -> <<"d", FormatFloat(x.v)>>
      [] x.t = "none" -> <<"N">>
      [] x.t = "dict" -> <<"a", ToString(Len(x.v)), "{">> \o DumpsPairs(x.v) \o <<"}">>
      [] x.t = "list" -> <<"a", ToString(Len(x.v)), "{">> \o DumpsItems(x.v, 0) \o <<"}">>
DumpsPairs(d) ==
    IF d = << >> THEN << >>
    ELSE Dumps(d[1][1]) \o Dumps(d[1][2]) \o DumpsPairs(Tail(d))
\* A list is written as an array keyed 0, 1, ...
DumpsItems(l, i) ==
    IF l = << >> THEN << >>
    ELSE Dumps(PyInt(i)) \o Dumps(l[1]) \o DumpsItems(Tail(l), i + 1)

\* phpserialize.dumps(session_data) of a session mapping.
DumpsSession(d) == Dumps(PyDict(d))

ParseError == [ok |-> FALSE, val |-> PyNone, rest |-> << >>]
ParseInt(tok) ==
    IF \E n \in IntValues : ToString(n) = tok
    THEN CHOOSE n \in IntValues : ToString(n) = tok
    ELSE -1
ParseFloat(tok) ==
    IF \E n \in FloatValues : FormatFloat(n) = tok
    THEN CHOOSE n \in FloatValues : FormatFloat(n) = tok
    ELSE -1

RECURSIVE Loads1(_)
RECURSIVE LoadsPairs(_, _, _)
\* phpserialize's _unserialize: one value from the front of the blob, and
\* what follows it.  Arrays load as dicts (array_hook=dict).
Loads1(b) ==
    IF b = << >> THEN ParseError
    ELSE CASE Head(b) = "s" ->
                IF Len(b) >= 3 /\ ParseInt(b[2]) = Len(b[3])
                THEN [ok |-> TRUE, val |-> PyStr(b[3]), rest |-> SubSeq(b, 4, Len(b))]
                ELSE ParseError
           [] Head(b) = "i" ->
                IF Len(b) >= 2 /\ ParseInt(b[2]) >= 0
                THEN [ok |-> TRUE, val |-> PyInt(ParseInt(b[2])), rest |-> SubSeq(b, 3, Len(b))]
                ELSE ParseError
           [] Head(b) = "b" ->
                IF Len(b) >= 2 /\ b[2] \in {"0", "1"}
                THEN [ok |-> TRUE, val |-> PyBool(b[2] = "1"), rest |-> SubSeq(b, 3, Len(b))]
                ELSE ParseError
           [] Head(b) = "d" ->
                IF Len(b) >= 2 /\ ParseFloat(b[2]) >= 0
                THEN [ok |-> TRUE, val |-> PyFloat(ParseFloat(b[2])), rest |-> SubSeq(b, 3, Len(b))]
                ELSE ParseError
           [] Head(b) = "N" ->
                [ok |-> TRUE, val |-> PyNone, rest |-> Tail(b)]
           [] Head(b) = "a" ->
                IF Len(b) >= 4 /\ ParseInt(b[2]) >= 0 /\ b[3] = "{"
                THEN LoadsPairs(SubSeq(b, 4, Len(b)), ParseInt(b[2]), << >>)
                ELSE ParseError
           [] OTHER -> ParseError
LoadsPairs(b, n, acc) ==
    IF n = 0
    THEN IF b # << >> /\ Head(b) = "}"
         THEN [ok |-> TRUE, val |-> PyDict(acc), rest |-> Tail(b)]
         ELSE ParseError
    ELSE LET k == Loads1(b)
         IN  IF ~k.ok \/ k.val.t \notin {"str", "int"} THEN ParseError
             ELSE LET v == Loads1(k.rest)
                  IN  IF ~v.ok THEN ParseError
                      ELSE LoadsPairs(v.rest, n - 1, DictSet(acc, k.val, v.val))

\* phpserialize.loads(raw, decode_strings=True, object_hook=...): ok is
\* FALSE where loads raises.
Loads(b) == LET r == Loads1(b) IN [ok |-> r.ok, val |-> r.val]

(***************************************************************************)
(* decode.py: the JSON pass over the loaded mapping.                       *)
(***************************************************************************)
JsonList == "[\"a\",\"b\"]"
\* json.loads on the strings the model's records hold.
JsonLoads(s) ==
    CASE s = JsonList -> [ok |-> TRUE, val |-> PyList(<<PyStr("a"), PyStr("b")>>)]
      [] s = "5"      -> [ok |-> TRUE, val |-> PyInt(5)]
      [] s = "true"   -> [ok |-> TRUE, val |-> PyBool(TRUE)]
      [] OTHER        -> [ok |-> FALSE, val |-> PyNone]

StartsWith(s, p) == Len(s) >= Len(p) /\ SubSeq(s, 1, Len(p)) = p

\* key in json_fields: a key that is no string is in no set of strings.
InJsonFields(key, json_fields) ==
    json_fields # {} /\ key.t = "str" /\ key.v \in json_fields

\* should_decode, where its evaluation ends without an error.
ShouldDecode(key, json_fields, json_prefix) ==
    \/ InJsonFields(key, json_fields)
    \/ json_prefix # None /\ json_prefix # "" /\ key.t = "str"
       /\ StartsWith(key.v, json_prefix)

\* should_decode raises AttributeError: key.startswith is reached (the key
\* is not in json_fields and json_prefix is truthy) and the key is no str.
ShouldDecodeRaises(key, json_fields, json_prefix) ==
    /\ ~InJsonFields(key, json_fields)
    /\ json_prefix # None /\ json_prefix # ""
    /\ key.t # "str"

\* The first entry at which decode_json_fields raises; 0 if it returns.
RaisesAt(d, json_fields, json_prefix) ==
    LET bad == {i \in 1..Len(d) :
                  /\ d[i][2].t = "str"
                  /\ ShouldDecodeRaises(d[i][1], json_fields, json_prefix)}
    IN  IF bad = {} THEN 0 ELSE CHOOSE i \in bad : \A j \in bad : i <= j

\* A JSON pass that also parses the strings of fields it was not told of.
DecodeEveryString(d, json_fields, json_prefix) ==
    [i \in 1..Len(d) |->
        IF d[i][2].t = "str" /\ JsonLoads(d[i][2].v).ok
        THEN <<d[i][1], JsonLoads(d[i][2].v).val>>
        ELSE d[i]]

\* decode_json_fields(data, json_fields, json_prefix): data as the loop
\* leaves it, on return or at the entry where it raises.
DecodeJsonFields(d, json_fields, json_prefix) ==
    [i \in 1..Len(d) |->
        IF /\ RaisesAt(d, json_fields, json_prefix) \in {0} \cup (i + 1 .. Len(d))
           /\ d[i][2].t = "str"
           /\ ShouldDecode(d[i][1], json_fields, json_prefix)
           /\ JsonLoads(d[i][2].v).ok
        THEN <<d[i][1], JsonLoads(d[i][2].v).val>>
        ELSE d[i]]

\* Decoding without the JSON pass.
DecodeSessionNoJson(cfg, raw) ==
    LET r == Loads(raw)
    IN  IF r.ok /\ r.val.t = "dict"
        THEN [ok |-> TRUE, val |-> r.val.v]
        ELSE [ok |-> FALSE, val |-> EmptyDict]

\* SessionManager._decode_session(raw)
DecodeSession(cfg, raw) ==
    LET r == Loads(raw)
    IN  IF /\ r.ok /\ r.val.t = "dict"
           /\ RaisesAt(r.val.v, cfg.json_fields, cfg.json_prefix) = 0
        THEN [ok |-> TRUE,
              val |-> DecodeJsonFields(r.val.v, cfg.json_fields, cfg.json_prefix)]
        ELSE [ok |-> FALSE, val |-> EmptyDict]

(***************************************************************************)
(* The state.                                                              *)
(***************************************************************************)
\* Bounds of the model.
NumCallers == 2
MaxTime == 4
MaxMutations == 1

Callers == 1..NumCallers

\* Session ids the callers use: the id of tests/conftest.py, which matches
\* PHPSESSID_PATTERN, and the id of the manager's docstring, which does not.
IdA == "a1b2c3d4e5f6g7h8i9j0k1l2m3n4o5p6"
IdB == "abc123"
Ids == {IdA, IdB}

VARIABLES
    store,    \* Redis: key -> [val, exp]; a key is present until time exp
    now,      \* the clock, in ticks
    ctx,      \* ctx[c]: the ambient session id of task c (context.py)
    pc,       \* pc[c]: where task c is
    op,       \* op[c]: the operation task c called
    arg,      \* arg[c]: the session_id parameter of the call
    sid,      \* sid[c]: resolved_id
    token,    \* token[c]: the lock token of the call
    start,    \* start[c]: the time the acquire loop started
    wake,     \* wake[c]: the time of the next loop iteration
    acq,      \* acq[c]: the time the conditional write succeeded
    sess,     \* sess[c]: session_data / data, the mapping in memory
    muts,     \* muts[c]: mutations the caller's block has made
    raised,   \* raised[c]: the caller's block raised
    err,      \* err[c]: the error that left the call
    ret,      \* ret[c]: the value returned or yielded
    done,     \* done[c]: the time the call ended
    log,      \* log[c]: the store commands task c issued, in order
    minted,   \* number of tokens minted so far
    mw,       \* mw[c]: where the middleware's dispatch of task c's request is
    cookie,   \* cookie[c]: the PHPSESSID cookie of the request, or None
    phpsessid,\* phpsessid[c]: what sanitize_phpsessid returned in dispatch
    reqState, \* reqState[c]: request.state.session_id, None if never set
    call,     \* a call of one of the package's plain functions: its name,
              \* its arguments and its outcome; [fn |-> None] before it
    args      \* args[c]: the key and value arguments of task c's call

mwVars == <<mw, cookie, phpsessid, reqState>>

vars == <<store, now, ctx, pc, op, arg, sid, token, start, wake, acq, sess, muts,
          raised, err, ret, done, log, minted, mwVars, call, args>>

\* A call without key and value arguments.
NoArgs == [key |-> None, value |-> PyNone]

\* The nil reply of GET on an absent key.
Nil == <<None>>

\* Redis: the key is present (expired keys are removed as time advances).
Present(k) == k \in DOMAIN store
\* GET k: the value or None.
RedisGet(k) == IF Present(k) THEN store[k].val ELSE Nil
\* The keyspace after SET k v EX|PX ttl.
RedisSet(st, k, v, ttl) ==
    [x \in DOMAIN st \cup {k} |->
        IF x = k THEN [val |-> v, exp |-> now + ttl] ELSE st[x]]
\* The keyspace after DEL k.
RedisDel(st, k) == [x \in DOMAIN st \ {k} |-> st[x]]

\* SET k v NX PX ttl: sets only an absent key.
SetNxOverwrites(k) == TRUE
SetNxSucceeds(k) == ~Present(k)

\* RELEASE_LOCK_SCRIPT: delete KEYS[1] only if it holds ARGV[1].
ReleaseScriptNoCheck(st, k, tok) == RedisDel(st, k)
ReleaseScript(st, k, tok) ==
    IF k \in DOMAIN st /\ st[k].val = <<tok>> THEN RedisDel(st, k) ELSE st

\* SessionManager._resolve_session_id: the parameter, else the ambient id,
\* else None (where the code raises SessionContextError).
ResolveCtxFirst(session_id, c) ==
    IF ctx[c] # None THEN ctx[c] ELSE session_id
ResolveSessionId(session_id, c) ==
    IF session_id # None THEN session_id ELSE ctx[c]

\* A token source that hands every call the same string.
TokenHexFixed(n) == "T0"

\* secrets.token_hex(16): 128 random bits, taken as a token no earlier
\* call drew; n counts the draws.
TokenHex(n) == "T" \o ToString(n)

Cmd(name, key) == <<name, key>>
Issue(c, cmds) == log' = [log EXCEPT ![c] = log[c] \o cmds]

\* A record PHP stored before the model starts.
PhpRecord == << <<PyStr("scart_items"), PyStr(JsonList)>>,
                <<PyStr("cart_count"), PyInt(1)>> >>

InitStores ==
    { << >>,
      [k \in {SessionKey(Config, IdA)} |->
          [val |-> DumpsSession(PhpRecord), exp |-> SessionExpire]] }

Init ==
    /\ store \in InitStores
    /\ now = 0
    /\ ctx = [c \in Callers |-> None]
    /\ pc = [c \in Callers |-> "idle"]
    /\ op = [c \in Callers |-> None]
    /\ arg = [c \in Callers |-> None]
    /\ sid = [c \in Callers |-> None]
    /\ token = [c \in Callers |-> None]
    /\ start = [c \in Callers |-> 0]
    /\ wake = [c \in Callers |-> 0]
    /\ acq = [c \in Callers |-> 0]
    /\ sess = [c \in Callers |-> EmptyDict]
    /\ muts = [c \in Callers |-> 0]
    /\ raised = [c \in Callers |-> FALSE]
    /\ err = [c \in Callers |-> None]
    /\ ret = [c \in Callers |-> PyNone]
    /\ done = [c \in Callers |-> 0]
    /\ log = [c \in Callers |-> << >>]
    /\ minted = 0
    /\ mw = [c \in Callers |-> "none"]
    /\ cookie = [c \in Callers |-> None]
    /\ phpsessid = [c \in Callers |-> None]
    /\ reqState = [c \in Callers |-> None]
    /\ call = [fn |-> None]
    /\ args = [c \in Callers |-> NoArgs]

(***************************************************************************)
(* SessionManager.lock                                                     *)
(***************************************************************************)
\* What the caller's block may assign: session[k] = v.
Mutations == { <<PyStr("cart_count"), PyInt(5)>>,
               <<PyStr("scart_items"), PyStr("not json")>> }

\* lock(session_id): resolve the id, mint the token, note the start time.
CallLock(c, session_id) ==
    /\ pc[c] = "idle"
    /\ op' = [op EXCEPT ![c] = "lock"]
    /\ arg' = [arg EXCEPT ![c] = session_id]
    /\ IF ResolveSessionId(session_id, c) = None
       THEN /\ pc' = [pc EXCEPT ![c] = "error"]
            /\ err' = [err EXCEPT ![c] = "SessionContextError"]
            /\ done' = [done EXCEPT ![c] = now]
            /\ UNCHANGED <<sid, token, start, wake, acq, minted>>
       ELSE /\ pc' = [pc EXCEPT ![c] = "acquiring"]
            /\ sid' = [sid EXCEPT ![c] = ResolveSessionId(session_id, c)]
            /\ token' = [token EXCEPT ![c] = TokenHex(minted + 1)]
            /\ minted' = minted + 1
            /\ start' = [start EXCEPT ![c] = now]
            /\ wake' = [wake EXCEPT ![c] = now]
            /\ UNCHANGED <<acq, err, done>>
    /\ UNCHANGED <<store, now, ctx, sess, muts, raised, ret, log>>
    /\ UNCHANGED <<mwVars, call, args>>

\* A loop condition that never ends the loop.
BeforeDeadlineAlways(c) == TRUE

\* The loop condition: time() - start < lock_timeout.
BeforeDeadline(c) == now - start[c] < Config.lock_timeout

\* The duration of asyncio.sleep(LOCK_RETRY_INTERVAL).
RetrySleepShort == LOCK_RETRY_INTERVAL - 1
RetrySleepTripled == 3 * LOCK_RETRY_INTERVAL
RetrySleep == LOCK_RETRY_INTERVAL

\* px=int(lock_timeout * 1000): the lock key's time to live, in ticks.
LockPxInSeconds(cfg) == 1000 * cfg.lock_timeout
LockPxShort(cfg) == cfg.lock_timeout - 1
LockPx(cfg) == cfg.lock_timeout

\* The timeout path, "if not acquired: raise": the commands it issues (none)
\* and the store it leaves.
TimeoutPathReleases(c) ==
    [cmds |-> <<Cmd("EVAL", LockKey(Config, sid[c]))>>,
     store |-> ReleaseScript(store, LockKey(Config, sid[c]), token[c])]
TimeoutPath(c) == [cmds |-> << >>, store |-> store]

\* An acquire loop whose rejected conditional write renews the expiry of
\* the lock key it found.
AttemptRenewsExpiry(c) ==
    /\ pc[c] = "acquiring"
    /\ wake[c] <= now
    /\ IF ~BeforeDeadline(c)
       THEN /\ pc' = [pc EXCEPT ![c] = "failed"]
            /\ err' = [err EXCEPT ![c] = "SessionLockError"]
            /\ done' = [done EXCEPT ![c] = now]
            /\ store' = TimeoutPath(c).store
            /\ Issue(c, TimeoutPath(c).cmds)
            /\ UNCHANGED <<wake, acq>>
       ELSE /\ Issue(c, <<Cmd("SETNX", LockKey(Config, sid[c]))>>)
            /\ UNCHANGED <<err, done>>
            /\ IF SetNxSucceeds(LockKey(Config, sid[c]))
               THEN /\ store' = RedisSet(store, LockKey(Config, sid[c]),
                                         <<token[c]>>, LockPx(Config))
                    /\ pc' = [pc EXCEPT ![c] = "acquired"]
                    /\ acq' = [acq EXCEPT ![c] = now]
                    /\ wake' = wake
               ELSE /\ wake' = [wake EXCEPT ![c] = now + RetrySleep]
                    /\ store' = [store EXCEPT ![LockKey(Config, sid[c])].exp =
                                                now + LockPx(Config)]
                    /\ UNCHANGED <<pc, acq>>
    /\ UNCHANGED <<now, ctx, op, arg, sid, token, start, sess, muts, raised,
                   ret, minted>>
    /\ UNCHANGED <<mwVars, call, args>>

\* One iteration of the acquire loop: past the deadline raise
\* SessionLockError; else SET lock_key token NX PX, and sleep if rejected.
Attempt(c) ==
    /\ pc[c] = "acquiring"
    /\ wake[c] <= now
    /\ IF ~BeforeDeadline(c)
       THEN /\ pc' = [pc EXCEPT ![c] = "failed"]
            /\ err' = [err EXCEPT ![c] = "SessionLockError"]
            /\ done' = [done EXCEPT ![c] = now]
            /\ store' = TimeoutPath(c).store
            /\ Issue(c, TimeoutPath(c).cmds)
            /\ UNCHANGED <<wake, acq>>
       ELSE /\ Issue(c, <<Cmd("SETNX", LockKey(Config, sid[c]))>>)
            /\ UNCHANGED <<err, done>>
            /\ IF SetNxSucceeds(LockKey(Config, sid[c]))
               THEN /\ store' = RedisSet(store, LockKey(Config, sid[c]),
                                         <<token[c]>>, LockPx(Config))
                    /\ pc' = [pc EXCEPT ![c] = "acquired"]
                    /\ acq' = [acq EXCEPT ![c] = now]
                    /\ wake' = wake
               ELSE /\ wake' = [wake EXCEPT ![c] = now + RetrySleep]
                    /\ UNCHANGED <<store, pc, acq>>
    /\ UNCHANGED <<now, ctx, op, arg, sid, token, start, sess, muts, raised,
                   ret, minted>>
    /\ UNCHANGED <<mwVars, call, args>>

\* A load that reports an absent session key as an error.
LoadAbsentRaises(c) ==
    /\ pc[c] = "acquired"
    /\ Issue(c, <<Cmd("GET", SessionKey(Config, sid[c]))>>)
    /\ LET raw == RedisGet(SessionKey(Config, sid[c]))
           dec == DecodeSession(Config, raw)
       IN  IF raw # Nil /\ dec.ok
           THEN /\ sess' = [sess EXCEPT ![c] = dec.val]
                /\ ret' = [ret EXCEPT ![c] = PyDict(dec.val)]
                /\ pc' = [pc EXCEPT ![c] = "held"]
                /\ UNCHANGED <<err, done>>
           ELSE /\ pc' = [pc EXCEPT ![c] = "error"]
                /\ err' = [err EXCEPT ![c] =
                             IF raw = Nil THEN "SessionNotFoundError" ELSE "DecodeError"]
                /\ done' = [done EXCEPT ![c] = now]
                /\ UNCHANGED <<sess, ret>>
    /\ UNCHANGED <<store, now, ctx, op, arg, sid, token, start, wake, acq, muts,
                   raised, minted>>
    /\ UNCHANGED <<mwVars, call, args>>

\* A load that hands out the mapping another scope on the same session
\* already holds, and reads the store only when there is none.
LoadShared(c) ==
    /\ pc[c] = "acquired"
    /\ Issue(c, <<Cmd("GET", SessionKey(Config, sid[c]))>>)
    /\ LET others == {d \in Callers \ {c} :
                         op[d] = "lock" /\ pc[d] = "held" /\ sid[d] = sid[c]}
           raw == IF others = {} THEN RedisGet(SessionKey(Config, sid[c]))
                  ELSE DumpsSession(sess[CHOOSE d \in others : TRUE])
           dec == IF others = {} THEN DecodeSession(Config, raw)
                  ELSE [ok |-> TRUE, val |-> sess[CHOOSE d \in others : TRUE]]
       IN  IF raw = Nil \/ raw = << >>
           THEN /\ sess' = [sess EXCEPT ![c] = EmptyDict]
                /\ ret' = [ret EXCEPT ![c] = PyDict(EmptyDict)]
                /\ pc' = [pc EXCEPT ![c] = "held"]
                /\ UNCHANGED <<err, done>>
           ELSE IF dec.ok
           THEN /\ sess' = [sess EXCEPT ![c] = dec.val]
                /\ ret' = [ret EXCEPT ![c] = PyDict(dec.val)]
                /\ pc' = [pc EXCEPT ![c] = "held"]
                /\ UNCHANGED <<err, done>>
           ELSE /\ pc' = [pc EXCEPT ![c] = "error"]
                /\ err' = [err EXCEPT ![c] = "DecodeError"]
                /\ done' = [done EXCEPT ![c] = now]
                /\ UNCHANGED <<sess, ret>>
    /\ UNCHANGED <<store, now, ctx, op, arg, sid, token, start, wake, acq, muts,
                   raised, minted>>
    /\ UNCHANGED <<mwVars, call, args>>

\* After the lock is taken: GET the session key and decode it; an absent or
\* empty value gives the empty mapping.  A decode error leaves lock().
Load(c) ==
    /\ pc[c] = "acquired"
    /\ Issue(c, <<Cmd("GET", SessionKey(Config, sid[c]))>>)
    /\ LET raw == RedisGet(SessionKey(Config, sid[c]))
           dec == DecodeSession(Config, raw)
       IN  IF raw = Nil \/ raw = << >>
           THEN /\ sess' = [sess EXCEPT ![c] = EmptyDict]
                /\ ret' = [ret EXCEPT ![c] = PyDict(EmptyDict)]
                /\ pc' = [pc EXCEPT ![c] = "held"]
                /\ UNCHANGED <<err, done>>
           ELSE IF dec.ok
           THEN /\ sess' = [sess EXCEPT ![c] = dec.val]
                /\ ret' = [ret EXCEPT ![c] = PyDict(dec.val)]
                /\ pc' = [pc EXCEPT ![c] = "held"]
                /\ UNCHANGED <<err, done>>
           ELSE /\ pc' = [pc EXCEPT ![c] = "error"]
                /\ err' = [err EXCEPT ![c] = "DecodeError"]
                /\ done' = [done EXCEPT ![c] = now]
                /\ UNCHANGED <<sess, ret>>
    /\ UNCHANGED <<store, now, ctx, op, arg, sid, token, start, wake, acq, muts,
                   raised, minted>>
    /\ UNCHANGED <<mwVars, call, args>>

\* The caller's block assigns session[k] = v.
Mutate(c, kv) ==
    /\ pc[c] = "held"
    /\ muts[c] < MaxMutations
    /\ sess' = [sess EXCEPT ![c] = DictSet(sess[c], kv[1], kv[2])]
    /\ muts' = [muts EXCEPT ![c] = muts[c] + 1]
    /\ UNCHANGED <<store, now, ctx, pc, op, arg, sid, token, start, wake, acq,
                   raised, err, ret, done, log, minted>>
    /\ UNCHANGED <<mwVars, call, args>>

\* The caller's block ends, normally or by raising; the finally clause
\* writes the mapping back: SET session_key dumps(session_data) EX expire.
ExitSaveSkipOnRaise(c, raises) ==
    /\ pc[c] = "held"
    /\ raised' = [raised EXCEPT ![c] = raises]
    /\ IF raises THEN UNCHANGED <<store, log>>
       ELSE /\ Issue(c, <<Cmd("SET", SessionKey(Config, sid[c]))>>)
            /\ store' = RedisSet(store, SessionKey(Config, sid[c]),
                                 DumpsSession(sess[c]), Config.session_expire)
    /\ pc' = [pc EXCEPT ![c] = "saving"]
    /\ UNCHANGED <<now, ctx, op, arg, sid, token, start, wake, acq, sess, muts,
                   err, ret, done, minted>>
    /\ UNCHANGED <<mwVars, call, args>>
\* A save that writes only a session key that is there.
ExitSaveOnlyPresent(c, raises) ==
    /\ pc[c] = "held"
    /\ raised' = [raised EXCEPT ![c] = raises]
    /\ Issue(c, <<Cmd("SET", SessionKey(Config, sid[c]))>>)
    /\ store' = IF Present(SessionKey(Config, sid[c]))
                THEN RedisSet(store, SessionKey(Config, sid[c]),
                              DumpsSession(sess[c]), Config.session_expire)
                ELSE store
    /\ pc' = [pc EXCEPT ![c] = "saving"]
    /\ UNCHANGED <<now, ctx, op, arg, sid, token, start, wake, acq, sess, muts,
                   err, ret, done, minted>>
    /\ UNCHANGED <<mwVars, call, args>>
ExitSave(c, raises) ==
    /\ pc[c] = "held"
    /\ raised' = [raised EXCEPT ![c] = raises]
    /\ Issue(c, <<Cmd("SET", SessionKey(Config, sid[c]))>>)
    /\ store' = RedisSet(store, SessionKey(Config, sid[c]),
                         DumpsSession(sess[c]), Config.session_expire)
    /\ pc' = [pc EXCEPT ![c] = "saving"]
    /\ UNCHANGED <<now, ctx, op, arg, sid, token, start, wake, acq, sess, muts,
                   err, ret, done, minted>>
    /\ UNCHANGED <<mwVars, call, args>>

\* The finally clause when the write of the mapping raises (the store
\* refuses the SET or the connection is lost): the statement after it, the
\* release script, is not reached, and the write's error leaves lock().
ExitSaveFails(c, raises) ==
    /\ pc[c] = "held"
    /\ raised' = [raised EXCEPT ![c] = raises]
    /\ Issue(c, <<Cmd("SET", SessionKey(Config, sid[c]))>>)
    /\ pc' = [pc EXCEPT ![c] = "error"]
    /\ err' = [err EXCEPT ![c] = "StoreError"]
    /\ done' = [done EXCEPT ![c] = now]
    /\ UNCHANGED <<store, now, ctx, op, arg, sid, token, start, wake, acq, sess,
                   muts, ret, minted>>
    /\ UNCHANGED <<mwVars, call, args>>

\* The error that leaves lock() after the finally clause: the block's.
ErrorSwallowed(c) == None
ErrorAfterFinally(c) == IF raised[c] THEN "BlockError" ELSE None

\* A release that runs the script a second time.
ReleaseRunsTwice(c) ==
    /\ pc[c] = "saving"
    /\ Issue(c, <<Cmd("EVAL", LockKey(Config, sid[c])),
                   Cmd("EVAL", LockKey(Config, sid[c]))>>)
    /\ store' = ReleaseScript(store, LockKey(Config, sid[c]), token[c])
    /\ pc' = [pc EXCEPT ![c] = "released"]
    /\ err' = [err EXCEPT ![c] = ErrorAfterFinally(c)]
    /\ done' = [done EXCEPT ![c] = now]
    /\ UNCHANGED <<now, ctx, op, arg, sid, token, start, wake, acq, sess, muts,
                   raised, ret, minted>>
    /\ UNCHANGED <<mwVars, call, args>>

\* The finally clause goes on: run the release script with the token; then
\* the block's error, if any, leaves lock().
Release(c) ==
    /\ pc[c] = "saving"
    /\ Issue(c, <<Cmd("EVAL", LockKey(Config, sid[c]))>>)
    /\ store' = ReleaseScript(store, LockKey(Config, sid[c]), token[c])
    /\ pc' = [pc EXCEPT ![c] = "released"]
    /\ err' = [err EXCEPT ![c] = ErrorAfterFinally(c)]
    /\ done' = [done EXCEPT ![c] = now]
    /\ UNCHANGED <<now, ctx, op, arg, sid, token, start, wake, acq, sess, muts,
                   raised, ret, minted>>
    /\ UNCHANGED <<mwVars, call, args>>

\* A death of the process that takes the lock key with it.
CrashDropsLock(c) ==
    /\ pc[c] \in {"acquired", "held", "saving"}
    /\ pc' = [pc EXCEPT ![c] = "crashed"]
    /\ store' = RedisDel(store, LockKey(Config, sid[c]))
    /\ UNCHANGED <<now, ctx, op, arg, sid, token, start, wake, acq, sess,
                   muts, raised, err, ret, done, log, minted>>
    /\ UNCHANGED <<mwVars, call, args>>

\* The process running task c dies while it holds the lock.
Crash(c) ==
    /\ pc[c] \in {"acquired", "held", "saving"}
    /\ pc' = [pc EXCEPT ![c] = "crashed"]
    /\ UNCHANGED <<store, now, ctx, op, arg, sid, token, start, wake, acq, sess,
                   muts, raised, err, ret, done, log, minted>>
    /\ UNCHANGED <<mwVars, call, args>>

(***************************************************************************)
(* The operations that take no lock: get, set, save, delete, exists.       *)
(***************************************************************************)
\* The first lines of each: resolve the id or raise SessionContextError.
Enter(c, name, session_id) ==
    /\ pc[c] = "idle"
    /\ op' = [op EXCEPT ![c] = name]
    /\ arg' = [arg EXCEPT ![c] = session_id]
    /\ UNCHANGED <<now, ctx, token, start, wake, acq, muts, raised, done, minted>>
    /\ UNCHANGED <<mwVars, call>>

ContextError(c) ==
    /\ pc' = [pc EXCEPT ![c] = "error"]
    /\ err' = [err EXCEPT ![c] = "SessionContextError"]
    /\ UNCHANGED <<store, sid, sess, ret, log>>

\* The field names get(key) is asked for; None asks for the whole mapping.
GetKeys == {None, "cart_count"}

\* A get that renews the expiry of the key it read.
GetRefreshesTtl(c, key, session_id) ==
    /\ Enter(c, "get", session_id)
    /\ args' = [args EXCEPT ![c] = [key |-> key, value |-> PyNone]]
    /\ LET id == ResolveSessionId(session_id, c)
           raw == RedisGet(SessionKey(Config, id))
           dec == DecodeSession(Config, raw)
       IN  IF id = None THEN ContextError(c)
           ELSE /\ sid' = [sid EXCEPT ![c] = id]
                /\ Issue(c, <<Cmd("GET", SessionKey(Config, id))>>)
                /\ store' = IF raw = Nil THEN store
                            ELSE RedisSet(store, SessionKey(Config, id), raw,
                                          Config.session_expire)
                /\ sess' = sess
                /\ IF raw = Nil
                   THEN /\ ret' = [ret EXCEPT ![c] = PyNone]
                        /\ pc' = [pc EXCEPT ![c] = "returned"]
                        /\ err' = err
                   ELSE IF ~dec.ok
                   THEN /\ pc' = [pc EXCEPT ![c] = "error"]
                        /\ err' = [err EXCEPT ![c] = "DecodeError"]
                        /\ ret' = ret
                   ELSE /\ ret' = [ret EXCEPT ![c] =
                                     IF key = None THEN PyDict(dec.val)
                                     ELSE DictGet(dec.val, PyStr(key))]
                        /\ pc' = [pc EXCEPT ![c] = "returned"]
                        /\ err' = err

\* get(key, session_id)
Get(c, key, session_id) ==
    /\ Enter(c, "get", session_id)
    /\ args' = [args EXCEPT ![c] = [key |-> key, value |-> PyNone]]
    /\ LET id == ResolveSessionId(session_id, c)
           raw == RedisGet(SessionKey(Config, id))
           dec == DecodeSession(Config, raw)
       IN  IF id = None THEN ContextError(c)
           ELSE /\ sid' = [sid EXCEPT ![c] = id]
                /\ Issue(c, <<Cmd("GET", SessionKey(Config, id))>>)
                /\ UNCHANGED <<store, sess>>
                /\ IF raw = Nil
                   THEN /\ ret' = [ret EXCEPT ![c] = PyNone]
                        /\ pc' = [pc EXCEPT ![c] = "returned"]
                        /\ err' = err
                   ELSE IF ~dec.ok
                   THEN /\ pc' = [pc EXCEPT ![c] = "error"]
                        /\ err' = [err EXCEPT ![c] = "DecodeError"]
                        /\ ret' = ret
                   ELSE /\ ret' = [ret EXCEPT ![c] =
                                     IF key = None THEN PyDict(dec.val)
                                     ELSE DictGet(dec.val, PyStr(key))]
                        /\ pc' = [pc EXCEPT ![c] = "returned"]
                        /\ err' = err

\* A set that reads the record through the JSON pass.
SetReadDecodesJson(c, kv, session_id) ==
    /\ Enter(c, "set", session_id)
    /\ args' = [args EXCEPT ![c] = [key |-> kv[1].v, value |-> kv[2]]]
    /\ LET id == ResolveSessionId(session_id, c)
           raw == RedisGet(SessionKey(Config, id))
           dec == [ok |-> DecodeSession(Config, raw).ok,
                   val |-> PyDict(DecodeSession(Config, raw).val)]
       IN  IF id = None THEN ContextError(c)
           ELSE /\ sid' = [sid EXCEPT ![c] = id]
                /\ Issue(c, <<Cmd("GET", SessionKey(Config, id))>>)
                /\ UNCHANGED <<store, ret>>
                /\ IF raw = Nil \/ raw = << >>
                   THEN /\ sess' = [sess EXCEPT ![c] = DictSet(EmptyDict, kv[1], kv[2])]
                        /\ pc' = [pc EXCEPT ![c] = "writing"]
                        /\ err' = err
                   ELSE IF ~dec.ok \/ dec.val.t # "dict"
                   THEN /\ pc' = [pc EXCEPT ![c] = "error"]
                        /\ err' = [err EXCEPT ![c] = "DecodeError"]
                        /\ sess' = sess
                   ELSE /\ sess' = [sess EXCEPT ![c] = DictSet(dec.val.v, kv[1], kv[2])]
                        /\ pc' = [pc EXCEPT ![c] = "writing"]
                        /\ err' = err

\* set(key, value, session_id), up to its read: GET and loads (no JSON pass).
SetRead(c, kv, session_id) ==
    /\ Enter(c, "set", session_id)
    /\ args' = [args EXCEPT ![c] = [key |-> kv[1].v, value |-> kv[2]]]
    /\ LET id == ResolveSessionId(session_id, c)
           raw == RedisGet(SessionKey(Config, id))
           dec == Loads(raw)
       IN  IF id = None THEN ContextError(c)
           ELSE /\ sid' = [sid EXCEPT ![c] = id]
                /\ Issue(c, <<Cmd("GET", SessionKey(Config, id))>>)
                /\ UNCHANGED <<store, ret>>
                /\ IF raw = Nil \/ raw = << >>
                   THEN /\ sess' = [sess EXCEPT ![c] = DictSet(EmptyDict, kv[1], kv[2])]
                        /\ pc' = [pc EXCEPT ![c] = "writing"]
                        /\ err' = err
                   ELSE IF ~dec.ok \/ dec.val.t # "dict"
                   THEN /\ pc' = [pc EXCEPT ![c] = "error"]
                        /\ err' = [err EXCEPT ![c] = "DecodeError"]
                        /\ sess' = sess
                   ELSE /\ sess' = [sess EXCEPT ![c] = DictSet(dec.val.v, kv[1], kv[2])]
                        /\ pc' = [pc EXCEPT ![c] = "writing"]
                        /\ err' = err

\* set, its write: SET session_key dumps(data) EX expire.
SetWrite(c) ==
    /\ pc[c] = "writing"
    /\ Issue(c, <<Cmd("SET", SessionKey(Config, sid[c]))>>)
    /\ store' = RedisSet(store, SessionKey(Config, sid[c]),
                         DumpsSession(sess[c]), Config.session_expire)
    /\ pc' = [pc EXCEPT ![c] = "returned"]
    /\ UNCHANGED <<now, ctx, op, arg, sid, token, start, wake, acq, sess, muts,
                   raised, err, ret, done, minted>>
    /\ UNCHANGED <<mwVars, call, args>>

\* The mappings save(data) is given.
SaveData == { EmptyDict, << <<PyStr("cart_count"), PyInt(5)>> >> }

\* A save that stores the blob with twice the configured expiry.
SaveDoubleExpiry(c, data, session_id) ==
    /\ Enter(c, "save", session_id)
    /\ args' = [args EXCEPT ![c] = [key |-> None, value |-> PyDict(data)]]
    /\ LET id == ResolveSessionId(session_id, c)
       IN  IF id = None THEN ContextError(c)
           ELSE /\ sid' = [sid EXCEPT ![c] = id]
                /\ Issue(c, <<Cmd("SET", SessionKey(Config, id))>>)
                /\ store' = RedisSet(store, SessionKey(Config, id),
                                     DumpsSession(data),
                                     2 * Config.session_expire)
                /\ sess' = [sess EXCEPT ![c] = data]
                /\ pc' = [pc EXCEPT ![c] = "returned"]
                /\ UNCHANGED <<err, ret>>

\* save(data, session_id)
Save(c, data, session_id) ==
    /\ Enter(c, "save", session_id)
    /\ args' = [args EXCEPT ![c] = [key |-> None, value |-> PyDict(data)]]
    /\ LET id == ResolveSessionId(session_id, c)
       IN  IF id = None THEN ContextError(c)
           ELSE /\ sid' = [sid EXCEPT ![c] = id]
                /\ Issue(c, <<Cmd("SET", SessionKey(Config, id))>>)
                /\ store' = RedisSet(store, SessionKey(Config, id),
                                     DumpsSession(data), Config.session_expire)
                /\ sess' = [sess EXCEPT ![c] = data]
                /\ pc' = [pc EXCEPT ![c] = "returned"]
                /\ UNCHANGED <<err, ret>>

\* A delete that removes the lock key along with the session key.
DeleteDropsLock(c, session_id) ==
    /\ Enter(c, "delete", session_id)
    /\ UNCHANGED args
    /\ LET id == ResolveSessionId(session_id, c)
       IN  IF id = None THEN ContextError(c)
           ELSE /\ sid' = [sid EXCEPT ![c] = id]
                /\ Issue(c, <<Cmd("DEL", SessionKey(Config, id))>>)
                /\ store' = RedisDel(RedisDel(store, SessionKey(Config, id)),
                                     LockKey(Config, id))
                /\ ret' = [ret EXCEPT ![c] = PyBool(Present(SessionKey(Config, id)))]
                /\ pc' = [pc EXCEPT ![c] = "returned"]
                /\ UNCHANGED <<err, sess>>

\* A delete that reports success whether or not the key was there.
DeleteReturnsTrue(c, session_id) ==
    /\ Enter(c, "delete", session_id)
    /\ UNCHANGED args
    /\ LET id == ResolveSessionId(session_id, c)
       IN  IF id = None THEN ContextError(c)
           ELSE /\ sid' = [sid EXCEPT ![c] = id]
                /\ Issue(c, <<Cmd("DEL", SessionKey(Config, id))>>)
                /\ store' = RedisDel(store, SessionKey(Config, id))
                /\ ret' = [ret EXCEPT ![c] = PyBool(TRUE)]
                /\ pc' = [pc EXCEPT ![c] = "returned"]
                /\ UNCHANGED <<err, sess>>

\* delete(session_id): True if the key existed.
Delete(c, session_id) ==
    /\ Enter(c, "delete", session_id)
    /\ UNCHANGED args
    /\ LET id == ResolveSessionId(session_id, c)
       IN  IF id = None THEN ContextError(c)
           ELSE /\ sid' = [sid EXCEPT ![c] = id]
                /\ Issue(c, <<Cmd("DEL", SessionKey(Config, id))>>)
                /\ store' = RedisDel(store, SessionKey(Config, id))
                /\ ret' = [ret EXCEPT ![c] = PyBool(Present(SessionKey(Config, id)))]
                /\ pc' = [pc EXCEPT ![c] = "returned"]
                /\ UNCHANGED <<err, sess>>

\* exists(session_id)
Exists(c, session_id) ==
    /\ Enter(c, "exists", session_id)
    /\ UNCHANGED args
    /\ LET id == ResolveSessionId(session_id, c)
       IN  IF id = None THEN ContextError(c)
           ELSE /\ sid' = [sid EXCEPT ![c] = id]
                /\ Issue(c, <<Cmd("EXISTS", SessionKey(Config, id))>>)
                /\ ret' = [ret EXCEPT ![c] = PyBool(Present(SessionKey(Config, id)))]
                /\ pc' = [pc EXCEPT ![c] = "returned"]
                /\ UNCHANGED <<store, err, sess>>

(***************************************************************************)
(* The ambient session id (context.py) and the clock.                      *)
(***************************************************************************)
\* set_current_session_id(session_id), before the task calls the manager.
SetCurrentSessionId(c, session_id) ==
    /\ pc[c] = "idle"
    /\ ctx[c] # session_id
    /\ ctx' = [ctx EXCEPT ![c] = session_id]
    /\ UNCHANGED <<store, now, pc, op, arg, sid, token, start, wake, acq, sess,
                   muts, raised, err, ret, done, log, minted>>
    /\ UNCHANGED <<mwVars, call, args>>

\* A task that runs without waiting: its next store command is due now.
Runnable(c) ==
    \/ pc[c] \in {"acquired", "saving", "writing"}
    \/ pc[c] = "acquiring" /\ wake[c] <= now

\* One tick passes; keys whose time to live has run out are gone.
Tick ==
    /\ now < MaxTime
    /\ \A c \in Callers : ~Runnable(c)
    /\ now' = now + 1
    /\ store' = [k \in {x \in DOMAIN store : store[x].exp > now + 1} |-> store[k]]
    /\ UNCHANGED <<ctx, pc, op, arg, sid, token, start, wake, acq, sess, muts,
                   raised, err, ret, done, log, minted>>
    /\ UNCHANGED <<mwVars, call, args>>

\* A task calls one operation of the manager with session_id.
Call(c, session_id) ==
    \/ CallLock(c, session_id)
    \/ \E k \in GetKeys : Get(c, k, session_id)
    \/ \E kv \in Mutations : SetRead(c, kv, session_id)
    \/ \E d \in SaveData : Save(c, d, session_id)
    \/ Delete(c, session_id)
    \/ Exists(c, session_id)

\* A task that is inside a call takes its next step.
Step(c) ==
    \/ Attempt(c)
    \/ Load(c)
    \/ \E kv \in Mutations : Mutate(c, kv)
    \/ \E r \in BOOLEAN : ExitSave(c, r)
    \/ Release(c)
    \/ SetWrite(c)
    \/ Crash(c)

\* Concurrent tasks, each calling the manager with an explicit session id.
Next ==
    \/ \E c \in Callers, id \in Ids : Call(c, id)
    \/ \E c \in Callers : Step(c)
    \/ Tick

Spec == Init /\ [][Next]_vars

\* What the session_id parameter and the ambient id may be: an id, the empty
\* string, or None.
CtxIds == Ids \cup {None, ""}

\* One task, with or without an ambient session id, with or without the
\* session_id parameter.
NextCtx ==
    \/ \E id \in CtxIds : Call(1, id)
    \/ \E id \in CtxIds : SetCurrentSessionId(1, id)
    \/ Step(1)
    \/ Tick

SpecCtx == Init /\ [][NextCtx]_vars

\* A task inside a lock() whose block changes nothing and does not raise.
PlainLockStep(c) ==
    \/ Attempt(c)
    \/ Load(c)
    \/ ExitSave(c, FALSE)
    \/ Release(c)
    \/ Crash(c)

\* Concurrent lock() callers of one session id, any of which may crash
\* while it holds the lock.
NextCrash ==
    \/ \E c \in Callers : CallLock(c, IdA)
    \/ \E c \in Callers : PlainLockStep(c)
    \/ Tick

\* The event loop resumes every task whose poll of the lock key is due.
SpecCrash ==
    Init /\ [][NextCrash]_vars /\ \A c \in Callers : WF_vars(Attempt(c))

\* Concurrent lock() callers of one session id whose blocks change the
\* mapping, any of which may die while it holds the lock.
NextCrashWindow ==
    \/ \E c \in Callers : CallLock(c, IdA)
    \/ \E c \in Callers : Attempt(c)
    \/ \E c \in Callers : Load(c)
    \/ \E c \in Callers, kv \in Mutations : Mutate(c, kv)
    \/ \E c \in Callers, r \in BOOLEAN : ExitSave(c, r)
    \/ \E c \in Callers : Release(c)
    \/ \E c \in Callers : Crash(c)
    \/ Tick

SpecCrashWindow == Init /\ [][NextCrashWindow]_vars

\* The task awaiting lock() is cancelled while the loop awaits the reply of
\* its conditional write: CancelledError leaves lock() from that await.  The
\* command had been sent or not; if the store received it (applied), the
\* store ran it.  No statement of lock() runs after the await.
CancelInWrite(c, applied) ==
    /\ pc[c] = "acquiring"
    /\ wake[c] <= now
    /\ BeforeDeadline(c)
    /\ Issue(c, <<Cmd("SETNX", LockKey(Config, sid[c]))>>)
    /\ store' = IF applied /\ SetNxSucceeds(LockKey(Config, sid[c]))
                THEN RedisSet(store, LockKey(Config, sid[c]),
                              <<token[c]>>, LockPx(Config))
                ELSE store
    /\ pc' = [pc EXCEPT ![c] = "cancelled"]
    /\ err' = [err EXCEPT ![c] = "CancelledError"]
    /\ done' = [done EXCEPT ![c] = now]
    /\ UNCHANGED <<now, ctx, op, arg, sid, token, start, wake, acq, sess, muts,
                   raised, ret, minted>>
    /\ UNCHANGED <<mwVars, call, args>>

\* The task is cancelled while the loop awaits asyncio.sleep.
CancelInSleep(c) ==
    /\ pc[c] = "acquiring"
    /\ wake[c] > now
    /\ pc' = [pc EXCEPT ![c] = "cancelled"]
    /\ err' = [err EXCEPT ![c] = "CancelledError"]
    /\ done' = [done EXCEPT ![c] = now]
    /\ UNCHANGED <<store, now, ctx, op, arg, sid, token, start, wake, acq, sess,
                   muts, raised, ret, log, minted>>
    /\ UNCHANGED <<mwVars, call, args>>

\* Concurrent lock() callers of one session id, any of which may be
\* cancelled in its acquire loop.
NextCancel ==
    \/ \E c \in Callers : CallLock(c, IdA)
    \/ \E c \in Callers : Attempt(c)
    \/ \E c \in Callers : Load(c)
    \/ \E c \in Callers, kv \in Mutations : Mutate(c, kv)
    \/ \E c \in Callers, r \in BOOLEAN : ExitSave(c, r)
    \/ \E c \in Callers : Release(c)
    \/ \E c \in Callers, applied \in BOOLEAN : CancelInWrite(c, applied)
    \/ \E c \in Callers : CancelInSleep(c)
    \/ Tick

SpecCancel == Init /\ [][NextCancel]_vars

\* Bytes that are not a PHP-serialized array.
MalformedBlob == <<"x", "{">>

\* Another client of the store leaves a malformed blob in the session key.
ForeignWrite(id) ==
    /\ RedisGet(SessionKey(Config, id)) # MalformedBlob
    /\ store' = RedisSet(store, SessionKey(Config, id), MalformedBlob,
                         Config.session_expire)
    /\ UNCHANGED <<now, ctx, pc, op, arg, sid, token, start, wake, acq, sess,
                   muts, raised, err, ret, done, log, minted>>
    /\ UNCHANGED <<mwVars, call, args>>

\* After the lock is taken, the GET of the session key raises (the
\* connection is lost): the statement is outside the try, so the error
\* leaves lock() and neither the save nor the release script runs.
LoadFails(c) ==
    /\ pc[c] = "acquired"
    /\ Issue(c, <<Cmd("GET", SessionKey(Config, sid[c]))>>)
    /\ pc' = [pc EXCEPT ![c] = "error"]
    /\ err' = [err EXCEPT ![c] = "StoreError"]
    /\ done' = [done EXCEPT ![c] = now]
    /\ UNCHANGED <<store, now, ctx, op, arg, sid, token, start, wake, acq, sess,
                   muts, raised, ret, minted>>
    /\ UNCHANGED <<mwVars, call, args>>

\* Concurrent lock() callers of one session id whose load may fail: the
\* GET raises, or the blob it returns is malformed.
NextLoadFails ==
    \/ \E c \in Callers : CallLock(c, IdA)
    \/ \E c \in Callers : Attempt(c)
    \/ \E c \in Callers : Load(c)
    \/ \E c \in Callers : LoadFails(c)
    \/ \E c \in Callers, kv \in Mutations : Mutate(c, kv)
    \/ \E c \in Callers, r \in BOOLEAN : ExitSave(c, r)
    \/ \E c \in Callers : Release(c)
    \/ ForeignWrite(IdA)
    \/ Tick

SpecLoadFails == Init /\ [][NextLoadFails]_vars

\* The same callers with time going on, under an event loop that resumes
\* every task whose poll is due, and a store that answers: no task waits
\* for ever for the reply to its GET or to its release script.
SpecTerminates ==
    /\ Init /\ [][NextCrash]_vars
    /\ WF_vars(Tick)
    /\ \A c \in Callers :
          /\ WF_vars(Attempt(c))
          /\ []<>(pc[c] # "acquired")
          /\ []<>(pc[c] # "saving")

\* Explicit session ids of concurrent lock() calls: two unrelated ids, and
\* the id that is IdB followed by the lock suffix.
IdBLock == IdB \o LOCK_SUFFIX
LockIds == {IdA, IdB, IdBLock}

\* Concurrent lock() callers, each on any of these ids.
NextIndependent ==
    \/ \E c \in Callers, id \in LockIds : CallLock(c, id)
    \/ \E c \in Callers : Attempt(c)
    \/ \E c \in Callers : Load(c)
    \/ \E c \in Callers, kv \in Mutations : Mutate(c, kv)
    \/ \E c \in Callers, r \in BOOLEAN : ExitSave(c, r)
    \/ \E c \in Callers : Release(c)
    \/ Tick

SpecIndependent == Init /\ [][NextIndependent]_vars

\* Concurrent lock() callers of one session id against a store whose SET
\* of the session key may fail.
NextSaveFails ==
    \/ \E c \in Callers : CallLock(c, IdA)
    \/ \E c \in Callers : Attempt(c)
    \/ \E c \in Callers : Load(c)
    \/ \E c \in Callers, kv \in Mutations : Mutate(c, kv)
    \/ \E c \in Callers, r \in BOOLEAN : ExitSave(c, r)
    \/ \E c \in Callers, r \in BOOLEAN : ExitSaveFails(c, r)
    \/ \E c \in Callers : Release(c)
    \/ Tick

SpecSaveFails == Init /\ [][NextSaveFails]_vars

(***************************************************************************)
(* Writing a record and reading it back.                                   *)
(***************************************************************************)
\* Field names and values of the records written: a plain field, a field of
\* the known-JSON set, a field with the auto-JSON prefix; one value of each
\* supported type, and strings that are or are not JSON text.
RecordFields == {"user_id", "scart_items", "trace_list_1"}
RecordValues ==
    { PyInt(12), PyFloat(15), PyBool(TRUE), PyStr("not json"), PyStr(JsonList),
      PyStr("5"), PyList(<<PyStr("a"), PyInt(2)>>),
      PyDict(<< <<PyStr("lang"), PyStr("en")>>, <<PyInt(1), PyFloat(5)>> >>) }

\* Records of at most two fields.
RoundTripRecords ==
    {EmptyDict}
    \cup { << <<PyStr(k), v>> >> : k \in RecordFields, v \in RecordValues }
    \cup { << <<PyStr("user_id"), v>>, <<PyStr(k), w>> >> :
             k \in RecordFields \ {"user_id"}, v \in RecordValues, w \in RecordValues }

\* Task 1 writes a record, with save() or with a lock scope; task 2 reads
\* with get().
NextRoundTrip ==
    \/ \E d \in RoundTripRecords : Save(1, d, IdA)
    \/ CallLock(1, IdA)
    \/ Attempt(1)
    \/ Load(1)
    \/ \E kv \in Mutations : Mutate(1, kv)
    \/ \E r \in BOOLEAN : ExitSave(1, r)
    \/ Release(1)
    \/ Get(2, None, IdA)
    \/ Tick

SpecRoundTrip == Init /\ [][NextRoundTrip]_vars

(***************************************************************************)
(* decode.py called by itself.                                             *)
(***************************************************************************)
\* Keys and values of the mappings decode_json_fields is given: keys as
\* phpserialize.loads gives them (strings, and integers for PHP's integer
\* keys).
DecodeKeys == {PyStr("scart_items"), PyStr("trace_list_1"), PyStr("user_id"), PyInt(0)}
DecodeValues == {PyStr(JsonList), PyStr("not json"), PyStr("5"), PyInt(12),
                 PyList(<<PyStr("a"), PyStr("b")>>)}
DecodeInputs ==
    {EmptyDict}
    \cup { << <<k, v>> >> : k \in DecodeKeys, v \in DecodeValues }
    \cup { << <<PyStr("scart_items"), v>>, <<k, w>> >> :
             k \in DecodeKeys \ {PyStr("scart_items")},
             v \in DecodeValues, w \in DecodeValues }

\* The json_fields and json_prefix arguments: None and the empty set or
\* string are alike falsy.
JsonFieldsArgs == {{}, DEFAULT_JSON_FIELDS}
JsonPrefixArgs == {None, "", "trace_list_"}

\* decode_json_fields(data, json_fields, json_prefix) is called.
DecodeCall(d, json_fields, json_prefix) ==
    /\ call.fn = None
    /\ call' = [fn |-> "decode_json_fields",
                data |-> d, json_fields |-> json_fields, json_prefix |-> json_prefix,
                raises |-> RaisesAt(d, json_fields, json_prefix) # 0,
                result |-> DecodeJsonFields(d, json_fields, json_prefix)]
    /\ UNCHANGED <<store, now, ctx, pc, op, arg, sid, token, start, wake, acq,
                   sess, muts, raised, err, ret, done, log, minted, mwVars, args>>

NextDecode ==
    \E d \in DecodeInputs, jf \in JsonFieldsArgs, jp \in JsonPrefixArgs :
        DecodeCall(d, jf, jp)

SpecDecode == Init /\ [][NextDecode]_vars

(***************************************************************************)
(* set() on records the PHP side stored.                                   *)
(***************************************************************************)
\* Records the PHP side stores: JSON text under a JSON field name, a nested
\* array, plain fields.
PhpRecords ==
    { EmptyDict,
      PhpRecord,
      << <<PyStr("user_id"), PyInt(12)>>,
         <<PyStr("prefs"), PyDict(<< <<PyStr("lang"), PyStr("en")>>,
                                     <<PyInt(0), PyFloat(15)>> >>)>>,
         <<PyStr("trace_list_1"), PyStr("5")>> >> }

\* The PHP side writes record d as the session of id.
PhpWrites(id, d) ==
    /\ store' = RedisSet(store, SessionKey(Config, id), DumpsSession(d),
                         Config.session_expire)
    /\ UNCHANGED <<now, ctx, pc, op, arg, sid, token, start, wake, acq, sess,
                   muts, raised, err, ret, done, log, minted, mwVars, call, args>>

\* The key and value arguments of set(): a field the record has or lacks,
\* a value of each type.
SetArgs ==
    { <<PyStr("cart_count"), PyInt(5)>>,
      <<PyStr("scart_items"), PyStr("5")>>,
      <<PyStr("user_id"), PyStr(JsonList)>>,
      <<PyStr("ratio"), PyFloat(15)>>,
      <<PyStr("flag"), PyBool(FALSE)>>,
      <<PyStr("tags"), PyList(<<PyStr("a"), PyStr("b")>>)>>,
      <<PyStr("prefs"), PyDict(<< <<PyStr("lang"), PyStr("de")>> >>)>> }

\* One task calls set(); the PHP side wrote before the call, not during it.
NextSet ==
    \/ \E d \in PhpRecords : pc[1] = "idle" /\ PhpWrites(IdA, d)
    \/ \E kv \in SetArgs : SetRead(1, kv, IdA)
    \/ SetWrite(1)
    \/ Tick

SpecSet == Init /\ [][NextSet]_vars

(***************************************************************************)
(* config.py: SessionConfig(...) and assignment to a constructed config.   *)
(***************************************************************************)
\* float("nan"): every ordering comparison with it is false.
FloatNaN == [t |-> "nan", v |-> 0]

\* x <= 0 as Python evaluates it for an int or a float.
PyLeZero(x) == x.t \in {"int", "float"} /\ x.v <= 0

\* The arguments SessionConfig is constructed with: seconds as ints, floats
\* in tenths of a second.
SessionExpireArgs == {PyInt(-1), PyInt(0), PyInt(1), PyInt(3600), PyInt(86400)}
LockTimeoutArgs ==
    {PyFloat(-10), PyFloat(0), PyInt(0), PyFloat(1), PyFloat(300), FloatNaN}
SessionPrefixArgs == {"", SESSION_PREFIX, "s"}

\* SessionConfig.__post_init__: the message of the ValueError, or None.
PostInit(cfg) ==
    IF PyLeZero(cfg.session_expire) THEN "session_expire must be positive"
    ELSE IF PyLeZero(cfg.lock_timeout) THEN "lock_timeout must be positive"
    ELSE IF cfg.session_prefix = "" THEN "session_prefix cannot be empty"
    ELSE None

\* No instance: the constructor raised.
NoConfig == [session_expire |-> PyNone, lock_timeout |-> PyNone,
             session_prefix |-> None]

\* SessionConfig(session_expire, lock_timeout, session_prefix): the instance
\* exists when __post_init__ raised nothing.
NewSessionConfig(se, lt, sp) ==
    /\ call.fn = None
    /\ LET cfg == [session_expire |-> se, lock_timeout |-> lt,
                   session_prefix |-> sp]
       IN  call' = [fn |-> "SessionConfig",
                    kwargs |-> cfg,
                    raises |-> PostInit(cfg),
                    ok |-> PostInit(cfg) = None,
                    result |-> IF PostInit(cfg) = None THEN cfg ELSE NoConfig,
                    assigned |-> 0]
    /\ UNCHANGED <<store, now, ctx, pc, op, arg, sid, token, start, wake, acq,
                   sess, muts, raised, err, ret, done, log, minted, mwVars, args>>

\* The fields of the frozen dataclass.
ConfigFields == {"session_expire", "lock_timeout", "session_prefix"}

\* config.<field> = value on a constructed config: the frozen dataclass
\* raises FrozenInstanceError and the field keeps its value.
SetAttrMaxTries == 2
SetAttr(f, value) ==
    /\ call.fn = "SessionConfig" /\ call.ok
    /\ call.assigned < SetAttrMaxTries
    /\ call' = [call EXCEPT !.raises = "FrozenInstanceError",
                            !.assigned = call.assigned + 1]
    /\ UNCHANGED <<store, now, ctx, pc, op, arg, sid, token, start, wake, acq,
                   sess, muts, raised, err, ret, done, log, minted, mwVars, args>>

NextConfig ==
    \/ \E se \in SessionExpireArgs, lt \in LockTimeoutArgs, sp \in SessionPrefixArgs :
          NewSessionConfig(se, lt, sp)
    \/ \E f \in ConfigFields, v \in SessionExpireArgs : SetAttr(f, v)

SpecConfig == Init /\ [][NextConfig]_vars

(***************************************************************************)
(* contrib/starlette.py: PHPSessionMiddleware.dispatch                     *)
(***************************************************************************)
\* The call has ended: it returned or an error left it.
Ended(c) == pc[c] \in {"returned", "released", "failed", "error"}

\* dispatch, up to call_next: sanitize the cookie and, if an id comes out,
\* put it in request.state and in the ambient context.
DispatchEnter(c, raw_phpsessid) ==
    /\ mw[c] = "none"
    /\ pc[c] = "idle"
    /\ cookie' = [cookie EXCEPT ![c] = raw_phpsessid]
    /\ phpsessid' = [phpsessid EXCEPT ![c] = Sanitize(raw_phpsessid)]
    /\ IF Sanitize(raw_phpsessid) # None /\ Sanitize(raw_phpsessid) # ""
       THEN /\ reqState' = [reqState EXCEPT ![c] = Sanitize(raw_phpsessid)]
            /\ ctx' = [ctx EXCEPT ![c] = Sanitize(raw_phpsessid)]
       ELSE UNCHANGED <<reqState, ctx>>
    /\ mw' = [mw EXCEPT ![c] = "handling"]
    /\ UNCHANGED <<store, now, pc, op, arg, sid, token, start, wake, acq, sess,
                   muts, raised, err, ret, done, log, minted, call, args>>

\* The downstream handler calls the manager.
HandlerCall(c, session_id) ==
    /\ mw[c] = "handling"
    /\ Call(c, session_id)

\* A dispatch that clears the ambient id after call_next returned, but not
\* when it raised.
DispatchExitNoFinally(c) ==
    /\ mw[c] = "handling"
    /\ pc[c] = "idle" \/ Ended(c)
    /\ ctx' = [ctx EXCEPT ![c] =
                  IF pc[c] \in {"failed", "error"} \/ raised[c] THEN ctx[c]
                  ELSE None]
    /\ mw' = [mw EXCEPT ![c] = "finished"]
    /\ UNCHANGED <<store, now, pc, op, arg, sid, token, start, wake, acq, sess,
                   muts, raised, err, ret, done, log, minted, cookie,
                   phpsessid, reqState, call, args>>

\* dispatch, its finally clause, once call_next returned or raised:
\* set_current_session_id(None).
DispatchExit(c) ==
    /\ mw[c] = "handling"
    /\ pc[c] = "idle" \/ Ended(c)
    /\ ctx' = [ctx EXCEPT ![c] = None]
    /\ mw' = [mw EXCEPT ![c] = "finished"]
    /\ UNCHANGED <<store, now, pc, op, arg, sid, token, start, wake, acq, sess,
                   muts, raised, err, ret, done, log, minted, cookie,
                   phpsessid, reqState, call, args>>

\* Cookie values of the requests whose handler calls the manager.
MwCookies == {None, IdA, " " \o IdA \o "\n", IdB, IdA \o "<"}

\* One request through the middleware; its handler calls the manager.
NextMw ==
    \/ \E k \in MwCookies : DispatchEnter(1, k)
    \/ \E id \in Ids \cup {None} : HandlerCall(1, id)
    \/ Step(1)
    \/ DispatchExit(1)
    \/ Tick

SpecMw == Init /\ [][NextMw]_vars

\* A request through the middleware in a context whose ambient id may have
\* been set before the request arrived.
NextMwPrior ==
    \/ \E id \in Ids : mw[1] = "none" /\ SetCurrentSessionId(1, id)
    \/ \E k \in MwCookies : DispatchEnter(1, k)
    \/ \E id \in Ids \cup {None} : HandlerCall(1, id)
    \/ Step(1)
    \/ DispatchExit(1)
    \/ Tick

SpecMwPrior == Init /\ [][NextMwPrior]_vars

(***************************************************************************)
(* Candidate session ids for the sanitizer: bodies of the lengths around   *)
(* the pattern's bounds, with or without one foreign character, with or    *)
(* without surrounding whitespace.                                         *)
(***************************************************************************)
BodyText ==
    "a1Bz0Qa1Bz0Qa1Bz0Qa1Bz0Qa1Bz0Qa1Bz0Qa1Bz0Qa1Bz0Qa1Bz0Qa1Bz0Qa1Bz0"
    \o "Qa1Bz0Qa1Bz0Qa1Bz0Qa1Bz0Qa1Bz0Qa1Bz0Qa1Bz0Qa1Bz0Qa1Bz0Qa1Bz0Qa1Bz"

\* An alphanumeric string of n characters.
Body(n) == SubSeq(BodyText, 1, n)

BodyLengths == {0, 6, MinIdLen - 1, MinIdLen, MinIdLen + 1, MaxIdLen, MaxIdLen + 1}
ForeignChars == {"<", "_", ",", "-", ".", " ", "\n", "\t", "ä", NUL}
Pads == {"", " ", "\t ", "\n", " \r\n"}

\* Body(n) with its character at pos replaced by ch.
WithForeign(n, pos, ch) ==
    SubSeq(Body(n), 1, pos - 1) \o ch \o SubSeq(Body(n), pos + 1, n)

Candidates ==
    {None}
    \cup { l \o Body(n) \o r : l \in Pads, r \in Pads, n \in BodyLengths }
    \cup UNION { { l \o WithForeign(n, pos, ch) \o r :
                      l \in {"", " "}, r \in {"", "\n"},
                      pos \in {1, 2, n}, ch \in ForeignChars } :
                    n \in BodyLengths \ {0} }

\* Requests with any candidate cookie; the handler does not use the manager.
NextSanitize ==
    \/ \E k \in Candidates : DispatchEnter(1, k)
    \/ DispatchExit(1)

SpecSanitize == Init /\ [][NextSanitize]_vars

(***************************************************************************)
(* sanitize.py: sanitize_phpsessid called directly, with or without a      *)
(* logger, and what it logs.                                               *)
(***************************************************************************)
\* Nothing was logged.
NoLog == [msg |-> None, prefix |-> "", length |-> 0]

\* The length below which the rejected text is logged whole (sanitize.py 54).
LogPrefixLen == 8

\* The logger.warning record of sanitize_phpsessid(c, logger): the format's
\* text and its two arguments.
SanitizeLogWhole(c) ==
    IF c = None \/ c = "" \/ PatternMatch(Strip(c)) THEN NoLog
    ELSE [msg |-> "Invalid PHPSESSID format rejected",
          prefix |-> Strip(c), length |-> Len(Strip(c))]
SanitizeLog(c) ==
    IF c = None \/ c = "" THEN NoLog
    ELSE LET t == Strip(c)
         IN  IF ~PatternMatch(t)
             THEN [msg |-> "Invalid PHPSESSID format rejected",
                   prefix |-> IF Len(t) >= LogPrefixLen
                              THEN SubSeq(t, 1, LogPrefixLen) ELSE t,
                   length |-> Len(t)]
             ELSE IF \E i \in 1..Len(t) : CharAt(t, i) = NUL
             THEN [msg |-> "PHPSESSID with null byte rejected",
                   prefix |-> "", length |-> 0]
             ELSE NoLog

\* Candidates, with rejected ones of the lengths around LogPrefixLen.
LogCandidates ==
    Candidates
    \cup { l \o Body(n) \o r :
              l \in {"", " "}, r \in {"", "\n"},
              n \in {1, LogPrefixLen - 1, LogPrefixLen, LogPrefixLen + 1} }
    \cup UNION { { WithForeign(n, pos, ch) : pos \in {1, n}, ch \in {"<", NUL} } :
                    n \in {LogPrefixLen - 1, LogPrefixLen, LogPrefixLen + 1} }
    \cup {" ", "<"}

\* sanitize_phpsessid(session_id, logger) is called.
SanitizeCall(session_id, logger) ==
    /\ call.fn = None
    /\ call' = [fn |-> "sanitize_phpsessid",
                session_id |-> session_id,
                logger |-> logger,
                result |-> Sanitize(session_id),
                logged |-> IF logger THEN SanitizeLog(session_id) ELSE NoLog]
    /\ UNCHANGED <<store, now, ctx, pc, op, arg, sid, token, start, wake, acq,
                   sess, muts, raised, err, ret, done, log, minted, mwVars, args>>

NextSanitizeLog ==
    \E k \in LogCandidates, logger \in BOOLEAN : SanitizeCall(k, logger)

SpecSanitizeLog == Init /\ [][NextSanitizeLog]_vars

(***************************************************************************)
(* exceptions.py: SessionLockError as lock() raises it on a timeout.       *)
(***************************************************************************)
\* The length up to which the error keeps the session id whole
\* (exceptions.py 37).
RedactLen == 8

\* str(timeout) inside the f-string of the message.
FormatTimeout(x) == IF x.t = "int" THEN ToString(x.v) ELSE FormatFloat(x.v)

\* A SessionLockError that keeps the session id as it was given.
SessionLockErrorWhole(session_id, timeout) ==
    [session_id |-> session_id,
     timeout |-> timeout,
     message |-> "Could not acquire session lock for " \o session_id
                 \o " within " \o FormatTimeout(timeout) \o "s"]

\* SessionLockError.__init__(session_id, timeout), message None: the
\* attributes and the message of the exception.
SessionLockErrorInit(session_id, timeout) ==
    LET shown == IF Len(session_id) > RedactLen
                 THEN SubSeq(session_id, 1, RedactLen) \o "..."
                 ELSE session_id
    IN  [session_id |-> shown,
         timeout |-> timeout,
         message |-> "Could not acquire session lock for " \o shown
                     \o " within " \o FormatTimeout(timeout) \o "s"]

\* Resolved session ids of the failing lock(): the callers' ids and
\* alphanumeric ids of lengths around RedactLen and the pattern's bounds.
ErrorIds ==
    Ids \cup { Body(n) : n \in 1..(RedactLen + 4) \cup {MinIdLen, MaxIdLen} }

\* Configured lock timeouts: seconds as ints, floats in tenths of a second.
ErrorTimeouts ==
    {PyFloat(1), PyFloat(5), PyFloat(25), PyFloat(100), PyFloat(300),
     PyInt(1), PyInt(10), PyInt(30)}

\* lock(), "if not acquired": raise SessionLockError(resolved_id,
\* self._config.lock_timeout).
RaiseSessionLockError(resolved_id, lock_timeout) ==
    /\ call.fn = None
    /\ call' = [fn |-> "SessionLockError",
                resolved_id |-> resolved_id,
                lock_timeout |-> lock_timeout,
                error |-> SessionLockErrorInit(resolved_id, lock_timeout)]
    /\ UNCHANGED <<store, now, ctx, pc, op, arg, sid, token, start, wake, acq,
                   sess, muts, raised, err, ret, done, log, minted, mwVars, args>>

NextLockError ==
    \E id \in ErrorIds, t \in ErrorTimeouts : RaiseSessionLockError(id, t)

SpecLockError == Init /\ [][NextLockError]_vars

(***************************************************************************)
(* The two keys of a session under the configs SessionConfig accepts.      *)
(***************************************************************************)
\* Configs handed to SessionConfig: key prefixes and lock suffixes, among
\* them the defaults, the empty string and a suffix of letters only.
LayoutPrefixes == {SESSION_PREFIX, "s", ""}
LayoutSuffixes == {LOCK_SUFFIX, "_CUSTOM_LOCK", "", "LOCK", "-"}
LayoutConfigs ==
    { [Config EXCEPT !.session_prefix = p, !.lock_suffix = s] :
        p \in LayoutPrefixes, s \in LayoutSuffixes }

\* Session ids as they arrive: ids the sanitizer accepts, one of them
\* another one followed by letters, and ids it rejects.
LayoutIds ==
    { IdA, IdA \o "LOCK", IdA \o "x", "Z9y8X7w6V5u4T3s2R1q0P9o8N7", IdB,
      IdA \o LOCK_SUFFIX }

\* A manager built on cfg computes the lock key of session a and the data
\* key of session b, each id having passed through sanitize_phpsessid; a
\* config that __post_init__ rejects builds no manager.
BuildKeys(cfg, a, b) ==
    /\ ConfigValid(cfg)
    /\ Sanitize(a) # None /\ Sanitize(b) # None
    /\ call' = [fn |-> "keys", cfg |-> cfg, a |-> Sanitize(a), b |-> Sanitize(b),
                lock_key |-> LockKey(cfg, Sanitize(a)),
                session_key |-> SessionKey(cfg, Sanitize(b))]
    /\ UNCHANGED <<store, now, ctx, pc, op, arg, sid, token, start, wake, acq,
                   sess, muts, raised, err, ret, done, log, minted, mwVars, args>>

NextLayout ==
    \E cfg \in LayoutConfigs, a \in LayoutIds, b \in LayoutIds :
        BuildKeys(cfg, a, b)

SpecLayout == Init /\ [][NextLayout]_vars

(***************************************************************************)
(* The lock expiry lock() hands to the store, for the lock timeouts        *)
(* SessionConfig accepts.  A timeout is a float given in microseconds, or  *)
(* float("inf").                                                           *)
(***************************************************************************)
Micros(n) == [t |-> "float", us |-> n]
FloatInf == [t |-> "inf", us |-> 0]

\* The timeouts a config is constructed with: multiples of a quarter of a
\* millisecond around zero and up to 30 ms, single microseconds, the
\* default of 30 s, and infinity.
LockTimeoutMicros ==
    { Micros(k * 250) : k \in -1..120 }
        \cup { Micros(1), Micros(999), Micros(1001), Micros(30000000), FloatInf }

\* __post_init__'s test lock_timeout <= 0 (infinity is not).
TimeoutLeZero(x) == x.t = "float" /\ x.us <= 0

\* int(lock_timeout * 1000): the product truncated toward zero;
\* OverflowError for infinity.
IntMillis(x) ==
    [raises |-> IF x.t = "inf" THEN "OverflowError" ELSE None,
     px |-> IF x.t = "inf" THEN 0 ELSE x.us \div 1000]

\* SessionConfig(lock_timeout=x) and, if it is accepted, the first
\* iteration of lock()'s acquire loop: the px argument of redis.set.
FirstAttemptPx(x) ==
    /\ call.fn = None
    /\ call' = [fn |-> "px", lock_timeout |-> x,
                accepted |-> ~TimeoutLeZero(x),
                raises |-> IF TimeoutLeZero(x) THEN "ValueError"
                           ELSE IntMillis(x).raises,
                px |-> IF TimeoutLeZero(x) THEN 0 ELSE IntMillis(x).px]
    /\ UNCHANGED <<store, now, ctx, pc, op, arg, sid, token, start, wake, acq,
                   sess, muts, raised, err, ret, done, log, minted, mwVars, args>>

NextPx == \E x \in LockTimeoutMicros : FirstAttemptPx(x)

SpecPx == Init /\ [][NextPx]_vars

(***************************************************************************)
(* Properties.                                                             *)
(***************************************************************************)
\* Task c is in the Held state of a lock cycle: its conditional write
\* succeeded and it has not yet run the release script.
Held(c) == op[c] = "lock" /\ pc[c] \in {"acquired", "held", "saving"}

\* The lock key of task c's session holds task c's token.
OwnsLock(c) ==
    /\ Present(LockKey(Config, sid[c]))
    /\ store[LockKey(Config, sid[c])].val = <<token[c]>>

\* The store commands of one name task c issued on one key.
Issued(c, name, key) == {i \in 1..Len(log[c]) : log[c][i] = Cmd(name, key)}

\* The writes of the session key task c made.
SaveCount(c) == Cardinality(Issued(c, "SET", SessionKey(Config, sid[c])))

\* C1 as claimed: for one session id, at most one lock() caller is in Held
\* at any time, also when a holder's block outlasts the lock key's expiry.
C1_MutexAlways ==
    \A c, d \in Callers :
        c # d /\ Held(c) /\ Held(d) => sid[c] # sid[d]

\* C1 amended: for one session id, at most one lock() caller is in Held
\* within lock_timeout of its own conditional write; two callers are in Held
\* together only when the earlier one's lock key has expired.  A caller in
\* Held owns the lock key for the lock_timeout after its conditional write.
C1_MutexWithinTtl ==
    /\ \A c, d \in Callers :
          c # d /\ Held(c) /\ Held(d) /\ sid[c] = sid[d]
          => now >= acq[c] + Config.lock_timeout \/ now >= acq[d] + Config.lock_timeout
    /\ \A c \in Callers :
          Held(c) /\ now < acq[c] + Config.lock_timeout => OwnsLock(c)

\* C1 witness: one caller is in Held and owns the lock while another caller
\* of the same session id has been rejected and sleeps before its retry.
C1_Witness ==
    \E c, d \in Callers :
        /\ c # d /\ Held(c) /\ OwnsLock(c)
        /\ op[d] = "lock" /\ pc[d] = "acquiring" /\ sid[d] = sid[c]
        /\ wake[d] > now

\* The lock cycle of task c is over: released or timed out.
LockOver(c) == op[c] = "lock" /\ pc[c] \in {"released", "failed"}

\* C2 as claimed: when N concurrent lock() callers of one session id are all
\* through, each has saved exactly once: N saves, none dropped by a timeout.
C2_ExactlyNSaves ==
    (\A c \in Callers : LockOver(c) /\ sid[c] = IdA)
    => \A c \in Callers : SaveCount(c) = 1

\* C2 amended: a lock() caller saves exactly once if it reached Held and
\* left its block, and never if it timed out; with N concurrent callers the
\* saves number N only when no caller times out.
C2_OneSavePerHeld ==
    \A c \in Callers :
        op[c] = "lock" =>
            /\ pc[c] \in {"saving", "released"} => SaveCount(c) = 1
            /\ pc[c] \in {"acquiring", "acquired", "held", "failed", "error"}
               => SaveCount(c) = 0
            /\ SaveCount(c) <= 1

\* C2 witness: all callers locked the same session id, one of them had to
\* retry, and each got the lock and saved once.
C2_Witness ==
    /\ \A c \in Callers :
          /\ op[c] = "lock" /\ pc[c] = "released" /\ sid[c] = IdA
          /\ SaveCount(c) = 1
    /\ \E d \in Callers :
          Cardinality(Issued(d, "SETNX", LockKey(Config, IdA))) >= 2

\* C3: when the caller's block raises, the mapping with the mutations made
\* so far is written to the session key, the release script is then run
\* with the caller's token, and the block's own error leaves lock().
C3_ExceptionSafety ==
    /\ [][\A c \in Callers :
            pc[c] = "held" /\ pc'[c] = "saving" /\ raised'[c]
            => /\ SessionKey(Config, sid[c]) \in DOMAIN store'
               /\ store'[SessionKey(Config, sid[c])].val = DumpsSession(sess[c])
               /\ sess'[c] = sess[c]]_vars
    /\ [](\A c \in Callers :
            raised[c] /\ pc[c] = "released"
            => /\ err[c] = "BlockError"
               /\ \E i, j \in 1..Len(log[c]) :
                     /\ i < j
                     /\ log[c][i] = Cmd("SET", SessionKey(Config, sid[c]))
                     /\ log[c][j] = Cmd("EVAL", LockKey(Config, sid[c]))
               /\ ~OwnsLock(c))
    /\ [](\A c \in Callers : raised[c] => pc[c] \in {"saving", "released", "crashed"})

\* C3 witness: a block that had mutated the mapping raised, and lock() is
\* through.
C3_Witness ==
    \E c \in Callers : raised[c] /\ pc[c] = "released" /\ muts[c] > 0

\* C4: a lock() call whose conditional writes are all rejected fails with
\* SessionLockError no earlier than lock_timeout and no later than
\* lock_timeout plus one retry interval after it started, and yields no
\* mapping; until then it is never parked beyond that time.
C4_Timeout ==
    \A c \in Callers :
        /\ pc[c] = "failed"
           => /\ err[c] = "SessionLockError"
              /\ done[c] - start[c] >= Config.lock_timeout
              /\ done[c] - start[c] <= Config.lock_timeout + LOCK_RETRY_INTERVAL
              /\ ret[c] = PyNone
              /\ sess[c] = EmptyDict
        /\ pc[c] = "acquiring"
           => /\ wake[c] <= start[c] + Config.lock_timeout + LOCK_RETRY_INTERVAL
              /\ now <= wake[c]
              /\ now <= start[c] + Config.lock_timeout + LOCK_RETRY_INTERVAL

\* C4 witness: a call failed after more than one rejected conditional write.
C4_Witness ==
    \E c \in Callers : pc[c] = "failed" /\ Len(log[c]) >= 2

\* C5: the release step deletes the lock key exactly when the key holds the
\* releasing caller's token; otherwise (another holder's token, or no key)
\* the lock key is left as it is; no error comes of it and the script is
\* run once.
C5_TokenCheckedRelease ==
    [][\A c \in Callers :
          pc[c] = "saving" /\ pc'[c] = "released"
          => LET k == LockKey(Config, sid[c])
             IN  /\ IF k \in DOMAIN store /\ store[k].val = <<token[c]>>
                    THEN k \notin DOMAIN store'
                    ELSE /\ (k \in DOMAIN store') = (k \in DOMAIN store)
                         /\ k \in DOMAIN store => store'[k] = store[k]
                 /\ \A x \in DOMAIN store \ {k} :
                       x \in DOMAIN store' /\ store'[x] = store[x]
                 /\ err'[c] = IF raised[c] THEN "BlockError" ELSE None
                 /\ Cardinality({i \in 1..Len(log'[c]) : log'[c][i][1] = "EVAL"}) = 1]_vars

\* C5 witness: a caller released after another caller had taken the lock
\* that the first one's expiry had freed, and the other one still owns it.
C5_Witness ==
    \E c, d \in Callers :
        /\ c # d /\ op[c] = "lock" /\ pc[c] = "released"
        /\ Held(d) /\ sid[d] = sid[c] /\ OwnsLock(d)
        /\ acq[d] <= done[c] /\ acq[c] < acq[d]

\* Task d cannot take or hold the lock of task c's session from the time
\* task c started polling: it is through, or works on another session, or
\* crashed as a holder whose key had expired by then.
OutOfTheWay(d, c) ==
    /\ pc[d] # "idle"
    /\ \/ sid[d] # sid[c]
       \/ pc[d] \in {"released", "failed", "error", "returned"} /\ done[d] < start[c]
       \/ pc[d] = "crashed" /\ start[c] >= acq[d] + Config.lock_timeout

\* Task c polls for a lock whose holder h crashed and whose key had expired
\* when c started; no other task contends.
PollsAfterCrash(h, c) ==
    /\ h # c
    /\ op[h] = "lock" /\ pc[h] = "crashed"
    /\ op[c] = "lock" /\ pc[c] = "acquiring" /\ sid[c] = sid[h]
    /\ start[c] >= acq[h] + Config.lock_timeout
    /\ \A d \in Callers \ {c} : OutOfTheWay(d, c)

\* C6: a holder that crashes while Held never releases, yet its lock key is
\* gone once lock_timeout has passed since its conditional write; a lock()
\* call on the same session id that starts polling after that (no live task
\* contending) reaches Held.
C6_NoPermanentDeadlock ==
    /\ [](\A h \in Callers :
            op[h] = "lock" /\ pc[h] = "crashed" /\ now >= acq[h] + Config.lock_timeout
            => ~OwnsLock(h))
    /\ \A h, c \in Callers :
          PollsAfterCrash(h, c) ~> (pc[c] \in {"acquired", "held", "saving", "released"})

\* C6 witness: the holder crashed, its key expired, and a caller that
\* started polling afterwards is in Held.
C6_Witness ==
    \E h, c \in Callers :
        /\ h # c /\ op[h] = "lock" /\ pc[h] = "crashed"
        /\ Held(c) /\ sid[c] = sid[h]
        /\ start[c] >= acq[h] + Config.lock_timeout
        /\ OwnsLock(c)

\* C7 as claimed: at the moment a lock() call fails by timeout the lock key
\* holds another holder's token.
C7_KeyHeldByOther ==
    [][\A c \in Callers :
          pc[c] = "acquiring" /\ pc'[c] = "failed"
          => /\ LockKey(Config, sid[c]) \in DOMAIN store'
             /\ store'[LockKey(Config, sid[c])].val # <<token[c]>>]_vars

\* C7 amended: a lock() call that fails by timeout has issued nothing but
\* conditional writes of its lock key, all rejected: it did not read or
\* write the session key, ran no release script, and its failing step
\* leaves the store as it is; the lock key never held its token (the key
\* may by then hold another holder's token, or have expired or been
\* released).
C7_TimeoutTouchesNothing ==
    /\ [](\A c \in Callers :
            pc[c] = "failed"
            => /\ Len(log[c]) >= 1
               /\ \A i \in 1..Len(log[c]) :
                     log[c][i] = Cmd("SETNX", LockKey(Config, sid[c]))
               /\ \A k \in DOMAIN store : store[k].val # <<token[c]>>)
    /\ [][\A c \in Callers :
            pc[c] = "acquiring" /\ pc'[c] = "failed" => store' = store]_vars

\* C7 witness: a call failed by timeout while the key it polled is gone:
\* the holder that blocked it let the key expire or released it.
C7_Witness ==
    \E c \in Callers :
        /\ pc[c] = "failed"
        /\ ~Present(LockKey(Config, sid[c]))

\* The keys the manager builds from the id task c resolved.
KeysOf(c) == {SessionKey(Config, sid[c]), LockKey(Config, sid[c])}

\* C8: every operation (lock, get, set, save, delete, exists) works on the
\* session_id parameter when one is given, whatever the ambient id is; else
\* on the ambient id; and with neither it fails with SessionContextError
\* having issued no store command.
C8_Resolution ==
    \A c \in Callers : op[c] # None =>
        /\ arg[c] # None =>
              sid[c] = arg[c] /\ err[c] # "SessionContextError"
        /\ arg[c] = None /\ ctx[c] # None =>
              sid[c] = ctx[c] /\ err[c] # "SessionContextError"
        /\ arg[c] = None /\ ctx[c] = None =>
              /\ err[c] = "SessionContextError" /\ pc[c] = "error"
              /\ sid[c] = None /\ log[c] = << >>
        /\ sid[c] # None =>
              \A i \in 1..Len(log[c]) : log[c][i][2] \in KeysOf(c)

\* C8 witness: a lock() given a session_id other than the ambient id has
\* taken the lock of the given id.
C8_Witness ==
    \E c \in Callers :
        /\ op[c] = "lock" /\ pc[c] = "held"
        /\ arg[c] \notin {None, ""} /\ ctx[c] \notin {None, "", arg[c]}
        /\ sid[c] = arg[c]
        /\ Present(LockKey(Config, arg[c])) /\ ~Present(LockKey(Config, ctx[c]))

\* Positions of the characters of s that are not whitespace.
InkAt(s) == {i \in 1..Len(s) : CharAt(s, i) \notin Whitespace}

\* s without the whitespace at its two ends.
Trimmed(s) ==
    IF InkAt(s) = {} THEN ""
    ELSE SubSeq(s, CHOOSE i \in InkAt(s) : \A j \in InkAt(s) : i <= j,
                   CHOOSE i \in InkAt(s) : \A j \in InkAt(s) : i >= j)

\* t is 26 to 128 characters, each of them one of A-Z, a-z, 0-9.
WellFormed(t) ==
    /\ Len(t) >= 26 /\ Len(t) <= 128
    /\ \A i \in 1..Len(t) : CharAt(t, i) \in Lower \cup Upper \cup Digit

\* C9: sanitize returns the whitespace-trimmed candidate when that is 26 to
\* 128 characters of [A-Za-z0-9], and None for every other candidate.
C9_Sanitizer ==
    \A c \in Callers : mw[c] # "none" =>
        phpsessid[c] = IF cookie[c] # None /\ WellFormed(Trimmed(cookie[c]))
                       THEN Trimmed(cookie[c])
                       ELSE None

\* C9 witness: a candidate padded with whitespace at both ends came out
\* trimmed, at the longest accepted length.
C9_Witness ==
    \E c \in Callers :
        /\ mw[c] # "none" /\ phpsessid[c] # None
        /\ Len(phpsessid[c]) = MaxIdLen
        /\ Len(cookie[c]) > MaxIdLen + 1
        /\ CharAt(cookie[c], 1) \in Whitespace
        /\ CharAt(cookie[c], Len(cookie[c])) \in Whitespace

\* C10 as claimed: every id the manager builds a key from, given as the
\* parameter or taken from the ambient context, matches the pattern.
C10_EveryIdSanitized ==
    \A c \in Callers : sid[c] # None => WellFormed(sid[c])

\* C10: an id the manager takes from the ambient context that the middleware
\* set is the sanitizer's output for the request's cookie and matches the
\* pattern, and the keys of the store commands are built from it.
C10_AmbientIdSanitized ==
    \A c \in Callers :
        mw[c] # "none" /\ op[c] # None /\ arg[c] = None /\ sid[c] # None =>
            /\ sid[c] = phpsessid[c]
            /\ WellFormed(sid[c])
            /\ \A i \in 1..Len(log[c]) : log[c][i][2] \in KeysOf(c)

\* C10 witness: the cookie was padded, the handler called the manager with
\* no session_id, and a store command went out on the trimmed id's key.
C10_Witness ==
    \E c \in Callers :
        /\ mw[c] = "handling" /\ op[c] # None /\ arg[c] = None
        /\ cookie[c] # phpsessid[c] /\ sid[c] = phpsessid[c] /\ sid[c] = IdA
        /\ Len(log[c]) > 0

\* Configs with other prefixes and suffixes than the defaults.
KeyConfigs ==
    { [Config EXCEPT !.session_prefix = p, !.lock_suffix = s] :
        p \in {SESSION_PREFIX, "CUSTOM_SESSION:", "s"},
        s \in {LOCK_SUFFIX, "_CUSTOM_LOCK", ""} }

\* C11: the session data key is the prefix followed by the id and the lock
\* key is that followed by the lock suffix, for every config and id; every
\* store command of an operation on id X goes to one of these two keys of X
\* (conditional write and release script to the lock key, all else to the
\* data key), and the store holds no other kind of key.
C11_KeyLayout ==
    /\ \A cfg \in KeyConfigs, id \in Ids \cup {""} :
          /\ SessionKey(cfg, id) = cfg.session_prefix \o id
          /\ LockKey(cfg, id) = cfg.session_prefix \o id \o cfg.lock_suffix
    /\ \A c \in Callers : \A i \in 1..Len(log[c]) :
          log[c][i][2] = IF log[c][i][1] \in {"SETNX", "EVAL"}
                         THEN Config.session_prefix \o sid[c] \o Config.lock_suffix
                         ELSE Config.session_prefix \o sid[c]
    /\ \A k \in DOMAIN store : \E id \in Ids :
          k \in {Config.session_prefix \o id,
                 Config.session_prefix \o id \o Config.lock_suffix}

\* C11 witness: a lock cycle on one id ran through while a lock on the other
\* id is held: commands went to the data key and the lock key of the first,
\* and the store holds the lock key of the second.
C11_Witness ==
    \E c, d \in Callers :
        /\ op[c] = "lock" /\ pc[c] = "released" /\ sid[c] = IdB
        /\ Issued(c, "SET", "PHPREDIS_SESSION:abc123") # {}
        /\ Issued(c, "EVAL", "PHPREDIS_SESSION:abc123_LOCK") # {}
        /\ Held(d) /\ sid[d] = IdA
        /\ ("PHPREDIS_SESSION:" \o IdA \o "_LOCK") \in DOMAIN store

\* Task c has written a record, with save() or on leaving a lock scope;
\* sess[c] is the record it wrote.
Wrote(c) ==
    \/ op[c] = "save" /\ pc[c] = "returned"
    \/ op[c] = "lock" /\ pc[c] \in {"saving", "released"}

\* Field name k is one whose string value get() parses as JSON.
JsonField(k) ==
    /\ k.t = "str"
    /\ \/ k.v \in {"scart_items", "ga_data", "session_view_log", "MPIReceive"}
       \/ Len(k.v) >= 11 /\ SubSeq(k.v, 1, 11) = "trace_list_"

\* The JSON texts among the strings the records hold, and their values.
JsonText == {"[\"a\",\"b\"]", "5", "true"}
JsonValue(s) ==
    CASE s = "5" -> PyInt(5)
      [] s = "true" -> PyBool(TRUE)
      [] OTHER -> PyList(<<PyStr("a"), PyStr("b")>>)

RECURSIVE NoSequence(_)
\* Value x holds no sequence, at any depth.
NoSequence(x) ==
    CASE x.t = "list" -> FALSE
      [] x.t = "dict" -> \A i \in 1..Len(x.v) : NoSequence(x.v[i][2])
      [] OTHER -> TRUE

RECURSIVE AsArray(_)
\* Value x with every sequence turned into the map of its positions
\* 0, 1, ... to its items.
AsArray(x) ==
    CASE x.t = "list" ->
            PyDict([i \in 1..Len(x.v) |-> <<PyInt(i - 1), AsArray(x.v[i])>>])
      [] x.t = "dict" ->
            PyDict([i \in 1..Len(x.v) |-> <<x.v[i][1], AsArray(x.v[i][2])>>])
      [] OTHER -> x

\* Record d reads back as it was written: no sequence in it, and no string
\* that is JSON text under a JSON field name.
Faithful(d) ==
    \A i \in 1..Len(d) :
        /\ NoSequence(d[i][2])
        /\ ~(d[i][2].t = "str" /\ JsonField(d[i][1]) /\ d[i][2].v \in JsonText)

\* What get() returns for the written record d.
ReadBack(d) ==
    [i \in 1..Len(d) |->
        IF d[i][2].t = "str" /\ JsonField(d[i][1]) /\ d[i][2].v \in JsonText
        THEN <<d[i][1], JsonValue(d[i][2].v)>>
        ELSE <<d[i][1], AsArray(d[i][2])>>]

\* C12 as claimed: get() after a write, with no write between, returns a
\* record equal to the one written, whatever its fields.
C12_RoundTripAll ==
    [][Wrote(1) /\ op[2] = None /\ op'[2] = "get" /\ Present(SessionKey(Config, IdA))
       => ret'[2] = PyDict(sess[1])]_vars

\* C12: get() after a write, with no write between, returns the record
\* written if it holds no sequence and no JSON text under a JSON field name
\* (strings, integers, floats, booleans and nested maps come back equal);
\* a sequence comes back as the map of its positions to its items, and a
\* JSON text under a JSON field name comes back as its parsed value.
C12_RoundTrip ==
    [][Wrote(1) /\ op[2] = None /\ op'[2] = "get" /\ Present(SessionKey(Config, IdA))
       => /\ ret'[2] = PyDict(ReadBack(sess[1]))
          /\ Faithful(sess[1]) => ret'[2] = PyDict(sess[1])
          /\ ~Faithful(sess[1]) => ret'[2] # PyDict(sess[1])
          /\ pc'[2] = "returned"]_vars

\* C12 witness: a record of two fields, a float and a nested map, was saved
\* and then read back equal.
C12_Witness ==
    /\ op[1] = "save" /\ pc[1] = "returned"
    /\ op[2] = "get" /\ pc[2] = "returned"
    /\ Len(sess[1]) = 2 /\ sess[1][1][2].t = "float" /\ sess[1][2][2].t = "dict"
    /\ ret[2] = PyDict(sess[1])

\* Entry <<k, v>> is one decode_json_fields parses: a string value that is
\* JSON text, under a key of the field set or with the prefix, if one is set.
Eligible(k, v, fields, prefix) ==
    /\ v.t = "str" /\ v.v \in JsonText
    /\ k.t = "str"
    /\ \/ k.v \in fields
       \/ /\ prefix \notin {None, ""}
          /\ Len(k.v) >= Len(prefix) /\ SubSeq(k.v, 1, Len(prefix)) = prefix

\* C13: decode_json_fields raises no error, keeps the keys, replaces the
\* value of exactly the eligible entries by its parsed JSON value and
\* leaves every other entry as it was.
C13_JsonSubDecode ==
    call.fn = "decode_json_fields" =>
        /\ ~call.raises
        /\ Len(call.result) = Len(call.data)
        /\ \A i \in 1..Len(call.data) :
              /\ call.result[i][1] = call.data[i][1]
              /\ call.result[i][2] =
                    IF Eligible(call.data[i][1], call.data[i][2],
                                call.json_fields, call.json_prefix)
                    THEN JsonValue(call.data[i][2].v)
                    ELSE call.data[i][2]

\* The claim of C13 for mappings whose keys are all strings.
StringKeysDecode ==
    call.fn = "decode_json_fields"
    /\ (\A i \in 1..Len(call.data) : call.data[i][1].t = "str")
    => /\ ~call.raises
       /\ Len(call.result) = Len(call.data)
       /\ \A i \in 1..Len(call.data) :
             /\ call.result[i][1] = call.data[i][1]
             /\ call.result[i][2] =
                   IF Eligible(call.data[i][1], call.data[i][2],
                               call.json_fields, call.json_prefix)
                   THEN JsonValue(call.data[i][2].v)
                   ELSE call.data[i][2]

\* C14: a lock() that took the lock of a session whose data key is absent
\* goes on to Held with the empty mapping and no error; no call ever ends
\* with SessionNotFoundError.
C14_AbsentIsEmpty ==
    /\ [][\A c \in Callers :
            /\ pc[c] = "acquired" /\ pc'[c] \notin {"acquired", "crashed"}
            /\ ~Present(SessionKey(Config, sid[c]))
            => /\ pc'[c] = "held"
               /\ sess'[c] = << >>
               /\ ret'[c] = PyDict(<< >>)
               /\ err'[c] = None]_vars
    /\ [](\A c \in Callers : err[c] # "SessionNotFoundError")

\* C14 witness: a caller is in Held with the empty mapping, having read the
\* data key, which is absent.
C14_Witness ==
    \E c \in Callers :
        /\ op[c] = "lock" /\ pc[c] = "held" /\ muts[c] = 0
        /\ ~Present(SessionKey(Config, sid[c]))
        /\ Issued(c, "GET", SessionKey(Config, sid[c])) # {}
        /\ ret[c] = PyDict(<< >>)

\* C15: get() issues one GET of the session data key and nothing else, and
\* leaves the store (values and expiry times, lock keys included) as it
\* is; it returns None when the key is absent, whether or not a field is
\* named, and else the decoded record, or the named field's value, or None
\* if the record has no such field.
C15_GetIsPureRead ==
    [][\A c \in Callers :
          op[c] = None /\ op'[c] = "get"
          => LET k == SessionKey(Config, sid'[c])
                 f == PyStr(args'[c].key)
                 rec == DecodeSession(Config, store[k].val)
             IN  /\ store' = store
                 /\ log'[c] = <<Cmd("GET", k)>>
                 /\ k \notin DOMAIN store
                    => ret'[c] = PyNone /\ pc'[c] = "returned" /\ err'[c] = None
                 /\ k \in DOMAIN store /\ rec.ok
                    => /\ pc'[c] = "returned" /\ err'[c] = None
                       /\ args'[c].key = None => ret'[c] = PyDict(rec.val)
                       /\ args'[c].key # None =>
                             \/ \E i \in 1..Len(rec.val) :
                                   rec.val[i][1] = f /\ ret'[c] = rec.val[i][2]
                             \/ /\ \A i \in 1..Len(rec.val) : rec.val[i][1] # f
                                /\ ret'[c] = PyNone]_vars

\* C15 witness: time has passed, a get() of a field returned the field's
\* value as PHP stored it, and the key's expiry time is still the one it
\* had at the start.
C15_Witness ==
    \E c \in Callers :
        /\ op[c] = "get" /\ pc[c] = "returned" /\ args[c].key = "cart_count"
        /\ ret[c] = PyInt(1) /\ now > 0
        /\ Present(SessionKey(Config, sid[c]))
        /\ store[SessionKey(Config, sid[c])].exp = SessionExpire
        /\ \A d \in Callers \ {c} : op[d] = None

\* The record held by blob b, as phpserialize reads it (no JSON pass).
Stored(b) == Loads(b).val.v

\* C16: with no other writer, set(k, v) leaves the stored record equal to
\* the one stored before with field k mapped to v: every other field is
\* there with the value it had, stored as it was (JSON text stays text),
\* no field is added or doubled; when the session was absent the stored
\* record is exactly {k: v}.  (A sequence v is stored as the map of its
\* positions to its items.)
C16_SetOneField ==
    [][pc[1] = "writing" /\ pc'[1] = "returned"
       => LET k == SessionKey(Config, sid[1])
              old == IF k \in DOMAIN store THEN Stored(store[k].val) ELSE << >>
              new == Stored(store'[k].val)
              f == PyStr(args[1].key)
              v == AsArray(args[1].value)
          IN  /\ k \in DOMAIN store' /\ Loads(store'[k].val).ok
              /\ \E j \in 1..Len(new) : new[j] = <<f, v>>
              /\ \A i \in 1..Len(old) :
                    old[i][1] # f => \E j \in 1..Len(new) : new[j] = old[i]
              /\ \A j \in 1..Len(new) :
                    new[j][1] # f => \E i \in 1..Len(old) : old[i] = new[j]
              /\ \A i, j \in 1..Len(new) : new[i][1] = new[j][1] => i = j
              /\ k \notin DOMAIN store => new = << <<f, v>> >>
              /\ \A x \in DOMAIN store \ {k} :
                    x \in DOMAIN store' /\ store'[x] = store[x]]_vars

\* C16 witness: set("cart_count", 5) has rewritten the record PHP stored:
\* cart_count is 5 and scart_items is still the JSON text.
C16_Witness ==
    /\ op[1] = "set" /\ pc[1] = "returned" /\ args[1].key = "cart_count"
    /\ Present(SessionKey(Config, IdA))
    /\ Stored(store[SessionKey(Config, IdA)].val)
          = << <<PyStr("scart_items"), PyStr("[\"a\",\"b\"]")>>,
               <<PyStr("cart_count"), PyInt(5)>> >>

\* The operations that take no lock, and the keys that are lock keys.
NonLockOps == {"get", "set", "save", "delete", "exists"}
IsLockKey(k) == Len(k) >= 5 /\ SubSeq(k, Len(k) - 4, Len(k)) = "_LOCK"
LockEntries(st) == {<<k, st[k]>> : k \in {x \in DOMAIN st : IsLockKey(x)}}

\* C17: get, set, save, delete and exists bypass the lock: every command
\* they send is GET, SET, DEL or EXISTS on a key that is not a lock key,
\* their steps leave every lock key as it was and take no time, they are
\* never waiting for a lock, and a set() that has read can always write,
\* whoever holds the lock.
C17_NonLockBypass ==
    [][\A c \in Callers :
          op'[c] \in NonLockOps
          => /\ \A i \in 1..Len(log'[c]) :
                   /\ log'[c][i][1] \in {"GET", "SET", "DEL", "EXISTS"}
                   /\ ~IsLockKey(log'[c][i][2])
             /\ pc'[c] \in {"writing", "returned", "error"}
             /\ pc'[c] # pc[c]
                   => LockEntries(store') = LockEntries(store) /\ now' = now
             /\ pc[c] = "writing" => ENABLED SetWrite(c)]_vars

\* C17 witness: a task holds the lock of a session it loaded as empty, and
\* another task's set() on that session has since written a record.
C17_Witness ==
    \E c, d \in Callers :
        /\ c # d /\ Held(d) /\ OwnsLock(d)
        /\ pc[d] = "held" /\ muts[d] = 0 /\ sess[d] = EmptyDict
        /\ op[c] = "set" /\ pc[c] = "returned" /\ sid[c] = sid[d]
        /\ Present(SessionKey(Config, sid[c]))

\* The session keys of a keyspace: its keys that are not lock keys.
SessionKeysOf(st) == {k \in DOMAIN st : ~IsLockKey(k)}
TtlWithin(st, t) ==
    \A k \in SessionKeysOf(st) : st[k].exp - t <= Config.session_expire

\* C18: every step that writes a session key (save on exit of lock(), set(),
\* save()) leaves it expiring session_expire from the time of the write, and
\* in every state a present session key has at most session_expire to live.
C18_SessionTtl ==
    [][/\ TtlWithin(store, now) /\ TtlWithin(store', now')
       /\ \A k \in SessionKeysOf(store') :
             (k \notin DOMAIN store \/ store'[k] # store[k]
              \/ \E c \in Callers :
                    /\ Len(log'[c]) > Len(log[c])
                    /\ log'[c][Len(log'[c])] = <<"SET", k>>)
             => store'[k].exp = now + Config.session_expire]_vars

\* C18 witness: a lock() has saved on exit, and a set() or save() has just
\* written at a time later than 0: its key has session_expire left.
C18_Witness ==
    /\ now > 0
    /\ \E c \in Callers :
          /\ op[c] \in {"set", "save"} /\ pc[c] = "returned"
          /\ Present(SessionKey(Config, sid[c]))
          /\ store[SessionKey(Config, sid[c])].exp = now + Config.session_expire
    /\ \E c \in Callers :
          /\ op[c] = "lock" /\ pc[c] = "released" /\ SaveCount(c) = 1
          /\ Present(SessionKey(Config, sid[c]))

\* Task c makes its call of operation name in this step and returns.
Returns(c, name) == pc[c] = "idle" /\ op'[c] = name /\ pc'[c] = "returned"

\* C19: delete() returns True exactly when the session key was there when it
\* was called, leaves the key absent and every lock key as it was; an absent
\* session key stays absent until a step that sends SET on it, and while it
\* is absent exists() returns False and get() returns None.
C19_Delete ==
    [][/\ \A c \in Callers :
             LET k == SessionKey(Config, sid'[c])
             IN  /\ Returns(c, "delete")
                    => /\ ret'[c] = PyBool(k \in DOMAIN store)
                       /\ k \notin DOMAIN store'
                       /\ \A x \in DOMAIN store \ {k} :
                             x \in DOMAIN store' /\ store'[x] = store[x]
                       /\ LockEntries(store') = LockEntries(store)
                 /\ Returns(c, "exists")
                    => ret'[c] = PyBool(k \in DOMAIN store)
                 /\ Returns(c, "get") /\ k \notin DOMAIN store
                    => ret'[c] = PyNone
       /\ \A k \in SessionKeysOf(store') :
             k \notin DOMAIN store
             => \E c \in Callers :
                   /\ Len(log'[c]) > Len(log[c])
                   /\ log'[c][Len(log'[c])] = <<"SET", k>>]_vars

\* C19 witness: before any key can have expired, a task's delete() of a
\* session returned True and another task's exists() on it returned False.
C19_Witness ==
    \E c, d \in Callers :
        /\ now = 0 /\ c # d /\ sid[c] = sid[d]
        /\ op[c] = "delete" /\ pc[c] = "returned" /\ ret[c] = PyBool(TRUE)
        /\ op[d] = "exists" /\ pc[d] = "returned" /\ ret[d] = PyBool(FALSE)

\* Task c is in a lock() call that drew its token.
HasToken(c) == op[c] = "lock" /\ token[c] # None

IsPositive(x) == x.t \in {"int", "float"} /\ x.v > 0
Constructed == call.fn = "SessionConfig" /\ call.ok

\* C21: constructing a config fails exactly when session_expire <= 0,
\* lock_timeout <= 0 or the prefix is empty, so that a config that was
\* constructed has session_expire > 0, lock_timeout > 0 and a non-empty
\* prefix.
C21_ConfigValidated ==
    Constructed
    => /\ IsPositive(call.result.session_expire)
       /\ IsPositive(call.result.lock_timeout)
       /\ call.result.session_prefix # ""

\* Apart from a not-a-number lock_timeout: construction fails exactly when
\* an argument is not positive or the prefix is empty, the constructed
\* config has the arguments as its fields, and an assignment to it raises
\* and changes no field.
ConfigValidatedNumbers ==
    [][/\ call'.fn = "SessionConfig" /\ call.fn = None
          /\ call'.kwargs.lock_timeout # FloatNaN
          => /\ (call'.raises = None) = call'.ok
             /\ call'.ok
                   = /\ IsPositive(call'.kwargs.session_expire)
                     /\ IsPositive(call'.kwargs.lock_timeout)
                     /\ call'.kwargs.session_prefix # ""
             /\ call'.ok => call'.result = call'.kwargs
       /\ Constructed
          => call'.result = call.result /\ call'.raises = "FrozenInstanceError"]_vars

\* The request of task c carries a cookie that the sanitizer's rules accept.
ValidCookie(c) == cookie[c] # None /\ WellFormed(Trimmed(cookie[c]))

\* C22: while the handler of a request with a valid session cookie runs, the
\* ambient session id (and request.state.session_id) is the cookie value
\* without its surrounding whitespace; once dispatch has finished, whether
\* the handler returned or raised, the ambient session id is None.
C22_MiddlewareScope ==
    \A c \in Callers :
        /\ mw[c] = "handling" /\ ValidCookie(c)
           => ctx[c] = Trimmed(cookie[c]) /\ reqState[c] = Trimmed(cookie[c])
        /\ mw[c] = "finished" => ctx[c] = None

\* C22 witness: a request whose cookie is a session id padded with
\* whitespace has finished after the block of its handler's lock() raised.
C22_Witness ==
    /\ mw[1] = "finished" /\ cookie[1] = " " \o IdA \o "\n"
    /\ op[1] = "lock" /\ raised[1] /\ pc[1] = "released" /\ sid[1] = IdA

\* C23: while the handler of a request with no session cookie, or with one
\* the sanitizer's rules reject, runs, the ambient id is None and
\* request.state holds no session_id, whatever the ambient id was before
\* the request.
C23_NoIdObserved ==
    \A c \in Callers :
        mw[c] = "handling" /\ ~ValidCookie(c)
        => ctx[c] = None /\ reqState[c] = None

\* For such a request dispatch leaves the ambient id as it found it, sets no
\* request.state.session_id and raises nothing: the handler observes no id
\* when there was none before the request.
RejectedCookieLeavesContext ==
    [][\A c \in Callers :
          mw[c] = "none" /\ mw'[c] = "handling" /\ ~ValidCookie(c)'
          => ctx'[c] = ctx[c] /\ reqState'[c] = None /\ err' = err]_vars

\* sanitize_phpsessid was called with a logger and rejected its input.
Rejected ==
    /\ call.fn = "sanitize_phpsessid" /\ call.logger
    /\ call.session_id # None /\ call.session_id # ""
    /\ ~WellFormed(Trimmed(call.session_id))

\* p is the first Len(p) characters of s.
IsPrefix(p, s) == Len(p) <= Len(s) /\ SubSeq(s, 1, Len(p)) = p

\* C24 as claimed: for every rejected input the logged text holds only a
\* proper prefix of the candidate, and its length.
C24_ProperPrefixLogged ==
    Rejected
    => /\ IsPrefix(call.logged.prefix, Trimmed(call.session_id))
       /\ Len(call.logged.prefix) < Len(Trimmed(call.session_id))
       /\ call.logged.length = Len(Trimmed(call.session_id))

\* C24 amended: for every rejected input the logged text holds the first 8
\* characters of the trimmed candidate and its length, which is a proper
\* prefix exactly when the trimmed candidate is longer than 8 characters; a
\* candidate of 8 characters or fewer is logged whole.  Nothing is logged
\* for an accepted input, for None or "", or without a logger.
C24_PrefixLogged ==
    /\ Rejected
       => LET t == Trimmed(call.session_id)
          IN  /\ call.logged.msg = "Invalid PHPSESSID format rejected"
              /\ IsPrefix(call.logged.prefix, t)
              /\ call.logged.length = Len(t)
              /\ Len(call.logged.prefix) = IF Len(t) > 8 THEN 8 ELSE Len(t)
              /\ call.result = None
    /\ call.fn = "sanitize_phpsessid" /\ ~Rejected => call.logged.msg = None

\* C24 witness: one rejected candidate longer than 8 characters was logged
\* by its first 8, or one of exactly 8 characters was logged whole.
C24_Witness ==
    /\ Rejected
    /\ Len(call.logged.prefix) = 8
    /\ Len(Trimmed(call.session_id)) \in {8, MaxIdLen + 1}

\* sub occurs somewhere in s.
Contains(s, sub) ==
    \E i \in 1..(Len(s) - Len(sub) + 1) : SubSeq(s, i, i + Len(sub) - 1) = sub
LockErrorRaised == call.fn = "SessionLockError"

ReachedHeld(c) == op[c] = "lock" /\ ret[c].t = "dict"

\* C28: every lock cycle that reached Held and is over has run the release
\* script on its lock key, also when the write of the mapping failed.
C28_AlwaysReleases ==
    \A c \in Callers :
        ReachedHeld(c) /\ pc[c] \in {"released", "error"}
        => Issued(c, "EVAL", LockKey(Config, sid[c])) # {}

\* When the write of the mapping fails, the lock() ends with the write's
\* error, the release script is not run, and the lock key keeps the token
\* until its expiry; when the write succeeds the script is run once.
FailedSaveKeepsLock ==
    [][\A c \in Callers :
          /\ pc[c] = "held" /\ pc'[c] = "error"
             => /\ Issued(c, "EVAL", LockKey(Config, sid[c]))' = {}
                /\ LockEntries(store') = LockEntries(store)
          /\ ReachedHeld(c) /\ pc'[c] = "released"
             => Cardinality(Issued(c, "EVAL", LockKey(Config, sid[c]))') = 1]_vars

\* Task c is inside or through a lock() call whose id was resolved.
Locking(c) == op[c] = "lock" /\ sid[c] # None

\* The lock() of task c was never made to wait and did not fail.
Undelayed(c) ==
    /\ pc[c] \notin {"failed", "error"}
    /\ pc[c] = "acquiring" => wake[c] = start[c]
    /\ pc[c] \in {"acquired", "held", "saving", "released"}
       => /\ acq[c] = start[c]
          /\ Cardinality({i \in 1..Len(log[c]) : log[c][i][1] = "SETNX"}) = 1

\* The two keys of id a are not keys of id b.
KeysApart(a, b) == a # b /\ a # b \o "_LOCK" /\ b # a \o "_LOCK"

\* Every store command of a lock() on id A goes to the key prefix+A or
\* prefix+A+"_LOCK", and its steps change no other key.
OwnKeysOnly ==
    [][\A c \in Callers :
          Locking(c)' /\ Len(log'[c]) > Len(log[c])
          => LET own == {"PHPREDIS_SESSION:" \o sid'[c],
                         "PHPREDIS_SESSION:" \o sid'[c] \o "_LOCK"}
             IN  /\ \A i \in 1..Len(log'[c]) : log'[c][i][2] \in own
                 /\ \A k \in (DOMAIN store \cup DOMAIN store') \ own :
                       k \in DOMAIN store /\ k \in DOMAIN store'
                       /\ store'[k] = store[k]]_vars

\* C26 as claimed: a lock() on one id is never delayed or failed by a lock()
\* on a different id.
C26_AnyOtherId ==
    \A c \in Callers :
        Locking(c) /\ (\A d \in Callers \ {c} : sid[d] # sid[c])
        => Undelayed(c)

\* C26 amended: a lock() cycle on id A sends commands only to A's lock key
\* and A's data key and changes no other key; a lock() is never delayed or
\* failed by a lock() on an id whose keys are apart from its own (neither id
\* is the other followed by the lock suffix).
C26_Independent ==
    /\ OwnKeysOnly
    /\ [](\A c \in Callers :
             Locking(c)
             /\ (\A d \in Callers \ {c} : sid[d] = None \/ KeysApart(sid[c], sid[d]))
             => Undelayed(c))

\* C26 witness: two tasks of the process are in Held at once, on different
\* ids, each owning its lock key.
C26_Witness ==
    \E c, d \in Callers :
        /\ c # d /\ Held(c) /\ Held(d) /\ sid[c] = IdA /\ sid[d] = IdB
        /\ OwnsLock(c) /\ OwnsLock(d)
        /\ pc[c] = "held" /\ pc[d] = "held"

\* The record the store's current blob of id decodes to; the empty mapping
\* when the key is absent.
CurrentRecord(id) ==
    LET k == SessionKey(Config, id)
    IN  IF k \in DOMAIN store /\ store[k].val # << >>
        THEN DecodeSession(Config, store[k].val).val
        ELSE EmptyDict

\* C27: the mapping a lock() hands to its block and the value a get()
\* returns are decoded from the blob the store holds at that step, whoever
\* wrote it; and a step in which one task's mapping changes (its load or a
\* mutation by its block) leaves the mapping of every other task, and what
\* was returned to it, as they were.
C27_NoCacheNoAlias ==
    [][\A c \in Callers :
          /\ op[c] = "lock" /\ pc[c] = "acquired" /\ pc'[c] = "held"
             => /\ sess'[c] = CurrentRecord(sid[c])
                /\ ret'[c] = PyDict(CurrentRecord(sid[c]))
          /\ Returns(c, "get") /\ SessionKey(Config, sid'[c]) \in DOMAIN store
             => ret'[c] = IF args'[c].key = None
                          THEN PyDict(CurrentRecord(sid'[c]))
                          ELSE DictGet(CurrentRecord(sid'[c]), PyStr(args'[c].key))
          /\ sess'[c] # sess[c]
             => \A d \in Callers \ {c} : sess'[d] = sess[d] /\ ret'[d] = ret[d]]_vars

\* C27 witness: two lock scopes on one session are open at once (the first
\* one's lock key expired); the block of one has changed its mapping and the
\* mapping of the other is as it was loaded.
C27_Witness ==
    \E c, d \in Callers :
        /\ c # d /\ sid[c] = sid[d]
        /\ op[c] = "lock" /\ pc[c] = "held" /\ muts[c] > 0
        /\ op[d] = "lock" /\ pc[d] = "held" /\ muts[d] = 0
        /\ sess[c] # sess[d] /\ ret[d] = PyDict(sess[d])

\* How far a lock() call has come: Idle, Acquiring, Held (the conditional
\* write succeeded; then the mapping is loaded), Saving, and the ends
\* Released and Failed.
Stage(p) ==
    CASE p = "idle" -> 0
      [] p = "acquiring" -> 1
      [] p = "acquired" -> 2
      [] p = "held" -> 3
      [] p = "saving" -> 4
      [] p \in {"released", "failed"} -> 5
      [] OTHER -> 6

\* The transitions of a lock cycle; at any point after the acquisition the
\* process may die, and a call with no resolvable id ends at once.
CycleMoves ==
    { <<"idle", "acquiring">>, <<"acquiring", "acquired">>,
      <<"acquired", "held">>, <<"held", "saving">>, <<"saving", "released">>,
      <<"acquiring", "failed">>,
      <<"idle", "error">>,
      <<"acquired", "crashed">>, <<"held", "crashed">>, <<"saving", "crashed">> }

\* The place of a store command in a lock cycle.
CmdRank(cmd) ==
    CASE cmd[1] = "SETNX" -> 1
      [] cmd[1] = "GET" -> 2
      [] cmd[1] = "SET" -> 3
      [] cmd[1] = "EVAL" -> 4
      [] OTHER -> 0
CountOf(c, name) == Cardinality({i \in 1..Len(log[c]) : log[c][i][1] = name})

Attempts(c) ==
    /\ op[c] = "lock" /\ Len(log'[c]) = Len(log[c]) + 1
    /\ log'[c][Len(log'[c])][1] = "SETNX"

\* C30: each acquire attempt is a conditional write on the caller's lock
\* key: when the key is absent the attempt succeeds and leaves the key with
\* the caller's token and lock_timeout to live; when the key is present the
\* attempt is rejected and the key keeps its value and its expiry, the
\* caller sleeps one retry interval; no other key changes either way.
C30_SetIfAbsent ==
    [][\A c \in Callers :
          Attempts(c)
          => LET k == "PHPREDIS_SESSION:" \o sid[c] \o "_LOCK"
             IN  /\ log'[c][Len(log'[c])][2] = k
                 /\ IF k \notin DOMAIN store
                    THEN /\ pc'[c] = "acquired"
                         /\ store'[k] = [val |-> <<token[c]>>,
                                         exp |-> now + Config.lock_timeout]
                    ELSE /\ pc'[c] = "acquiring"
                         /\ store'[k] = store[k]
                         /\ wake'[c] = now + LOCK_RETRY_INTERVAL
                 /\ \A x \in (DOMAIN store \cup DOMAIN store') \ {k} :
                       x \in DOMAIN store /\ x \in DOMAIN store'
                       /\ store'[x] = store[x]]_vars

\* C30 witness: a caller has been rejected, after time had passed since the
\* holder's conditional write: the lock key still holds the holder's token
\* and the expiry the holder gave it.
C30_Witness ==
    \E c, d \in Callers :
        /\ c # d /\ sid[c] = sid[d]
        /\ Held(d) /\ OwnsLock(d)
        /\ op[c] = "lock" /\ pc[c] = "acquiring" /\ wake[c] > now
        /\ start[c] > acq[d]
        /\ store[LockKey(Config, sid[d])].exp = acq[d] + Config.lock_timeout

\* The conditional writes of task c that were rejected, given that its
\* latest one was accepted.
Rejections(c) == CountOf(c, "SETNX") - 1

\* C31: a lock() call whose first k conditional writes are rejected and
\* whose next one succeeds sends k + 1 conditional writes, one retry
\* interval apart, and none after the successful one; it then loads the
\* mapping and is Held, and its exit writes the session key once.
C31_RetryOnContention ==
    /\ [](\A c \in Callers :
             op[c] = "lock" /\ pc[c] \in {"acquired", "held", "saving", "released"}
             => /\ Rejections(c) >= 0
                /\ acq[c] - start[c] = Rejections(c) * LOCK_RETRY_INTERVAL
                /\ \A i \in 1..Len(log[c]) :
                      log[c][i][1] = "SETNX" <=> i <= Rejections(c) + 1
                /\ pc[c] = "released"
                   => /\ Len(log[c]) = Rejections(c) + 4
                      /\ CountOf(c, "SET") = 1)
    /\ [][\A c \in Callers :
             /\ Attempts(c)
                => /\ pc[c] = "acquiring"
                   /\ pc'[c] = "acquiring" => wake'[c] = now + LOCK_RETRY_INTERVAL
                   /\ CountOf(c, "SETNX") > 0 => now = wake[c]
             /\ op[c] = "lock" /\ pc[c] = "acquired" /\ log'[c] # log[c]
                => pc'[c] = "held" /\ ret'[c].t = "dict"]_vars

\* C31 witness: a call whose first conditional write was rejected and whose
\* second one, a retry interval later, succeeded has left its scope: three
\* more commands, one of them the write of the session key.
C31_Witness ==
    \E c \in Callers :
        /\ op[c] = "lock" /\ pc[c] = "released"
        /\ CountOf(c, "SETNX") = 2 /\ Len(log[c]) = 5
        /\ acq[c] = start[c] + LOCK_RETRY_INTERVAL

\* Task c died inside lock() after its write of the session key and before
\* its release script.
CrashedAfterSave(c) ==
    /\ op[c] = "lock" /\ pc[c] = "crashed"
    /\ Len(log[c]) > 0 /\ log[c][Len(log[c])][1] = "SET"

\* The time the lock key written by task c runs out.
LockExpiry(c) == acq[c] + Config.lock_timeout

\* Every other call that wrote the session key of task c is a lock() call
\* that left its scope while the lock key it wrote was still there.
NoOverlappingWriter(c) ==
    \A d \in Callers \ {c} :
        sid[d] = sid[c] /\ CountOf(d, "SET") > 0
        => op[d] = "lock" /\ pc[d] = "released" /\ done[d] < LockExpiry(d)

\* C32: the death of a holder between its save and its release changes
\* nothing in the store.  From then until the lock key it wrote runs out,
\* the lock key holds the holder's token with the expiry it was given, and
\* the session key holds the mapping the holder saved (no other call having
\* written the session meanwhile); from that time on the lock key no longer
\* holds that token; and no other call on the session acquires the lock
\* before that time.
C32_CrashWindow ==
    /\ [](\A c \in Callers :
             CrashedAfterSave(c)
             => LET k == "PHPREDIS_SESSION:" \o sid[c] \o "_LOCK"
                    s == "PHPREDIS_SESSION:" \o sid[c]
                IN  IF now < LockExpiry(c)
                    THEN /\ k \in DOMAIN store
                         /\ store[k] = [val |-> <<token[c]>>, exp |-> LockExpiry(c)]
                         /\ NoOverlappingWriter(c)
                            => /\ s \in DOMAIN store
                               /\ store[s].val = DumpsSession(sess[c])
                    ELSE ~(k \in DOMAIN store /\ store[k].val = <<token[c]>>))
    /\ [][\A c, d \in Callers :
             /\ pc[c] = "saving" /\ pc'[c] = "crashed" => store' = store
             /\ /\ c # d /\ CrashedAfterSave(c) /\ sid'[d] = sid[c]
                /\ op'[d] = "lock" /\ pc[d] # "acquired" /\ pc'[d] = "acquired"
                => now >= LockExpiry(c)]_vars

\* C32 witness: a holder that changed the mapping died after saving it, and
\* another call on the session has been rejected since and is still waiting.
C32_Witness ==
    \E c, d \in Callers :
        /\ c # d /\ CrashedAfterSave(c) /\ muts[c] > 0
        /\ now < LockExpiry(c)
        /\ op[d] = "lock" /\ sid[d] = sid[c] /\ pc[d] = "acquiring"
        /\ wake[d] > now /\ start[d] > acq[c]

\* A call acquired the lock a dead holder had left, once it had run out.
C32_WitnessAfterExpiry ==
    \E c, d \in Callers :
        /\ c # d /\ CrashedAfterSave(c)
        /\ op[d] = "lock" /\ sid[d] = sid[c] /\ pc[d] = "held"
        /\ acq[d] >= LockExpiry(c)

\* A holder died after saving a changed mapping over the record an earlier
\* lock() call on the session had saved and released.
C32_WitnessSecondWriter ==
    \E c, d \in Callers :
        /\ c # d /\ CrashedAfterSave(c) /\ muts[c] > 0 /\ now < LockExpiry(c)
        /\ sid[d] = sid[c] /\ CountOf(d, "SET") > 0 /\ NoOverlappingWriter(c)

\* The call of task c was cancelled in its acquire loop.
Cancelled(c) == op[c] = "lock" /\ err[c] = "CancelledError"

\* C33: a lock() call cancelled in its acquire loop was never Held, sent no
\* command on the session key, and the lock key does not hold its token.
C33_CancelLeavesNothing ==
    \A c \in Callers :
        Cancelled(c)
        => /\ ret[c].t # "dict"
           /\ \A i \in 1..Len(log[c]) :
                 log[c][i][2] # "PHPREDIS_SESSION:" \o sid[c]
           /\ LET k == "PHPREDIS_SESSION:" \o sid[c] \o "_LOCK"
              IN  ~(k \in DOMAIN store /\ store[k].val = <<token[c]>>)

\* A call cancelled in its acquire loop was never Held and sent no command
\* on the session key; cancelled during the retry sleep, it has no token in
\* the store; cancelled during a conditional write, its token is in the
\* lock key only if the store ran that write, and then only until the
\* key's time to live runs out.
CancelledCallHoldsNothingAfterTtl ==
    \A c \in Callers :
        Cancelled(c)
        => /\ ret[c].t # "dict"
           /\ \A i \in 1..Len(log[c]) :
                 log[c][i][2] # "PHPREDIS_SESSION:" \o sid[c]
           /\ LET k == "PHPREDIS_SESSION:" \o sid[c] \o "_LOCK"
              IN  k \in DOMAIN store /\ store[k].val = <<token[c]>>
                  => /\ now < done[c] + Config.lock_timeout
                     /\ store[k].exp = done[c] + Config.lock_timeout
                     /\ log[c][Len(log[c])][1] = "SETNX"

\* Task c, inside lock(), writes the session key in this step.
SavesOnExit(c) ==
    /\ op[c] = "lock" /\ pc[c] = "held" /\ pc'[c] = "saving"
    /\ Len(log'[c]) = Len(log[c]) + 1
    /\ log'[c][Len(log'[c])] = <<"SET", "PHPREDIS_SESSION:" \o sid[c]>>

\* The lock key of task c's session holds the token of task c.
TokenInLockKey(c) ==
    LET k == "PHPREDIS_SESSION:" \o sid[c] \o "_LOCK"
    IN  k \in DOMAIN store /\ store[k].val = <<token[c]>>

\* C34 as claimed: whenever a lock scope writes the session key on exit,
\* the lock key holds the writer's token.
C34_SaveOwnsLock ==
    [][\A c \in Callers : SavesOnExit(c) => TokenInLockKey(c)]_vars

\* C34: a lock scope that writes the session key on exit before
\* lock_timeout has passed since its acquisition owns the lock at that
\* moment, and the write leaves the lock key as it is.  The write itself is
\* unconditional: a scope that ends later writes all the same.
C34_SaveWithinTtlOwnsLock ==
    [][\A c \in Callers :
          SavesOnExit(c)
          => /\ store'["PHPREDIS_SESSION:" \o sid[c]].val = DumpsSession(sess[c])
             /\ now < acq[c] + Config.lock_timeout
                => /\ TokenInLockKey(c)
                   /\ TokenInLockKey(c)'
                   /\ \A d \in Callers \ {c} :
                         sid[d] = sid[c] /\ op[d] = "lock"
                         => pc[d] \notin {"acquired", "held", "saving"}
                            \/ now >= acq[d] + Config.lock_timeout]_vars

\* C34 witness: a scope has written the session key while it owned the
\* lock, with another call on the session rejected and waiting.
C34_Witness ==
    \E c, d \in Callers :
        /\ c # d /\ op[c] = "lock" /\ pc[c] = "saving" /\ muts[c] > 0
        /\ now < acq[c] + Config.lock_timeout /\ TokenInLockKey(c)
        /\ op[d] = "lock" /\ sid[d] = sid[c] /\ pc[d] = "acquiring"
        /\ wake[d] > now

\* An error left the lock() call of task c after it had acquired the lock
\* and before its block: the load failed.
LoadFailed(c) ==
    /\ op[c] = "lock" /\ pc[c] = "error"
    /\ err[c] \in {"StoreError", "DecodeError"}
    /\ Len(log[c]) > 0 /\ log[c][Len(log[c])][1] = "GET"

\* C35: when a failed load has left lock(), the lock key does not hold the
\* caller's token and the caller has not written the session key.
C35_LoadFailureReleases ==
    \A c \in Callers :
        LoadFailed(c) => /\ ~TokenInLockKey(c)
                         /\ CountOf(c, "SET") = 0

\* When a failed load has left lock(), the caller has not written the
\* session key and has not run the release script; the lock key keeps the
\* caller's token, with the expiry it was given, until that time.
FailedLoadKeepsLock ==
    \A c \in Callers :
        LoadFailed(c)
        => /\ CountOf(c, "SET") = 0 /\ CountOf(c, "EVAL") = 0
           /\ ret[c].t # "dict"
           /\ now < acq[c] + Config.lock_timeout
              => /\ TokenInLockKey(c)
                 /\ store["PHPREDIS_SESSION:" \o sid[c] \o "_LOCK"].exp
                       = acq[c] + Config.lock_timeout
           /\ now >= acq[c] + Config.lock_timeout => ~TokenInLockKey(c)

\* C36: a lock cycle whose block does not change the mapping leaves the
\* session value as it was: its save writes back the blob that was stored,
\* and a session that was absent is absent after the save.
C36_NoMutationNoOp ==
    [][\A c \in Callers :
          SavesOnExit(c) /\ muts[c] = 0
          => LET s == "PHPREDIS_SESSION:" \o sid[c]
             IN  IF s \in DOMAIN store
                 THEN s \in DOMAIN store' /\ store'[s].val = store[s].val
                 ELSE s \notin DOMAIN store']_vars

\* What the save of a cycle that changed nothing does write: the decoded
\* mapping, encoded again, under a fresh expiry.  A known JSON field that
\* held JSON text is stored as the decoded array, and a session that was
\* absent is stored as the empty array.
NoMutationCycleReencodes ==
    [][\A c \in Callers :
          SavesOnExit(c) /\ muts[c] = 0
          => LET s == "PHPREDIS_SESSION:" \o sid[c]
             IN  /\ s \in DOMAIN store'
                 /\ store'[s].exp = now + Config.session_expire
                 /\ store'[s].val =
                       IF s \in DOMAIN store
                       THEN DumpsSession(DecodeSession(Config, store[s].val).val)
                       ELSE DumpsSession(EmptyDict)]_vars

\* The mappings n assignments of the block make of the mapping d.
RECURSIVE MutatedBy(_, _)
MutatedBy(d, n) ==
    IF n = 0 THEN {d}
    ELSE { DictSet(x, kv[1], kv[2]) : x \in MutatedBy(d, n - 1), kv \in Mutations }

\* The mapping of task c's scope is the mapping it was handed on entering
\* Held with the block's assignments applied.
LoadedPlusMutations(c) == sess[c] \in MutatedBy(ret[c].v, muts[c])

\* C37: the save on exit of a lock scope stores the scope's mapping, the
\* record loaded on entering Held with the block's assignments, whatever
\* the session key holds at that moment and also when it is absent: a set,
\* save or delete another task applied since the load is overwritten.  The
\* release that follows leaves the session key alone.
C37_SaveOverwrites ==
    [][\A c \in Callers :
          LET s == "PHPREDIS_SESSION:" \o sid[c]
          IN  /\ SavesOnExit(c)
                 => /\ LoadedPlusMutations(c)
                    /\ s \in DOMAIN store'
                    /\ store'[s] = [val |-> DumpsSession(sess[c]),
                                    exp |-> now + Config.session_expire]
              /\ op[c] = "lock" /\ pc[c] = "saving" /\ pc'[c] = "released"
                 => /\ s \in DOMAIN store <=> s \in DOMAIN store'
                    /\ s \in DOMAIN store => store'[s] = store[s]]_vars

\* C37 witness: a scope loaded the stored record, another task then deleted
\* the session, and the scope's save has put the session key back, holding
\* the scope's mapping.
C37_Witness ==
    \E c, d \in Callers :
        /\ c # d /\ op[c] = "lock" /\ pc[c] = "saving"
        /\ ret[c].t = "dict" /\ ret[c].v # EmptyDict
        /\ op[d] = "delete" /\ sid[d] = sid[c] /\ pc[d] = "returned"
        /\ ret[d] = PyBool(TRUE)
        /\ "PHPREDIS_SESSION:" \o sid[c] \in DOMAIN store
        /\ store["PHPREDIS_SESSION:" \o sid[c]].val = DumpsSession(sess[c])

\* A scope's save has replaced the field another task's set() had stored
\* since the scope's load.
C37_WitnessSetOverwritten ==
    \E c, d \in Callers :
        /\ c # d /\ op[c] = "lock" /\ pc[c] = "saving" /\ muts[c] = 0
        /\ op[d] = "set" /\ sid[d] = sid[c] /\ pc[d] = "returned"
        /\ start[c] = 0 /\ now = 0
        /\ DictGet(sess[c], PyStr(args[d].key)) # args[d].value
        /\ store["PHPREDIS_SESSION:" \o sid[c]].val = DumpsSession(sess[c])
        /\ store["PHPREDIS_SESSION:" \o sid[c]].val # DumpsSession(sess[d])

\* The string has a character outside [a-zA-Z0-9].
HasForeignChar(s) == \E i \in 1..Len(s) : SubSeq(s, i, i) \notin Alnum

\* C38 as claimed: for every accepted config and all sanitized ids a and b,
\* the lock key of a differs from the data key of b.
C38_NeverCollide ==
    call.fn = "keys" => call.lock_key # call.session_key

\* C38: for every accepted config whose lock suffix has a character outside
\* [a-zA-Z0-9], as the default "_LOCK" has, and all sanitized ids a and b,
\* the lock key of a differs from the data key of b.  With a lock suffix of
\* letters and digits only the lock key of a is the data key of the id a
\* followed by the suffix, and with the empty suffix, which validation
\* accepts, it is the data key of a itself.
C38_DistinctKeys ==
    call.fn = "keys"
    => /\ HasForeignChar(call.cfg.lock_suffix) => call.lock_key # call.session_key
       /\ call.lock_key = call.session_key
          <=> call.b = call.a \o call.cfg.lock_suffix

\* C38 witness: under the default config the keys were built for a
\* sanitized id and for the sanitized id that is the first followed by
\* "LOCK"; they differ.
C38_Witness ==
    /\ call.fn = "keys"
    /\ call.cfg.lock_suffix = "_LOCK" /\ call.cfg.session_prefix = "PHPREDIS_SESSION:"
    /\ call.b = call.a \o "LOCK"
    /\ call.lock_key # call.session_key

\* The most conditional writes one acquire loop sends: one at the start and
\* one per retry interval that begins before lock_timeout has passed.
MaxAttempts ==
    (Config.lock_timeout + LOCK_RETRY_INTERVAL - 1) \div LOCK_RETRY_INTERVAL

\* The acquire loop of task c is over.
LoopOver(c) ==
    pc[c] \in {"acquired", "held", "saving", "released", "crashed", "failed"}

\* C39: a lock() call that has left its acquire loop sent at least one and
\* at most MaxAttempts conditional writes, and left it either with the lock
\* (its last conditional write accepted) or Failed (none accepted), never
\* both; and every call in its acquire loop leaves it, at the latest
\* MaxAttempts retry intervals after it started.
C39_AcquireTerminates ==
    /\ [](\A c \in Callers :
             op[c] = "lock" /\ pc[c] # "error"
             => /\ CountOf(c, "SETNX") <= MaxAttempts
                /\ LoopOver(c)
                   => /\ CountOf(c, "SETNX") >= 1
                      /\ pc[c] = "failed" <=> err[c] = "SessionLockError"
                      /\ pc[c] = "failed" => ret[c].t # "dict"
                      /\ pc[c] = "failed"
                         => done[c] = start[c] + MaxAttempts * LOCK_RETRY_INTERVAL
                      /\ pc[c] # "failed"
                         => acq[c] < start[c] + Config.lock_timeout)
    /\ \A c \in Callers :
          (pc[c] = "acquiring"
             /\ start[c] + MaxAttempts * LOCK_RETRY_INTERVAL <= MaxTime)
          ~> LoopOver(c)

\* C39 witness: one call acquired on its first conditional write and died
\* in its block; another call on the session polled until its deadline and
\* is Failed after MaxAttempts conditional writes.
C39_Witness ==
    \E c, d \in Callers :
        /\ c # d /\ pc[d] = "crashed" /\ CountOf(d, "SETNX") = 1
        /\ op[c] = "lock" /\ pc[c] = "failed"
        /\ CountOf(c, "SETNX") = MaxAttempts /\ MaxAttempts > 1

\* C40: for every lock timeout the config accepts, the expiry lock() passes
\* to the store is computed and is an integer of at least 1 millisecond.
C40_PxPositive ==
    call.fn = "px" /\ call.accepted => call.raises = None /\ call.px >= 1

\* For an accepted finite lock timeout the expiry passed is the whole
\* milliseconds it has: at least 1 from one millisecond on, and 0 below.
PxIsWholeMillis ==
    call.fn = "px" /\ call.accepted /\ call.lock_timeout.t = "float"
    => /\ call.raises = None
       /\ call.px * 1000 <= call.lock_timeout.us
       /\ call.lock_timeout.us < (call.px + 1) * 1000
       /\ call.px >= 1 <=> call.lock_timeout.us >= 1000

====
